---- MODULE Spec2Model ----
(***************************************************************************)
(* State-machine model of the MovieHubBD backend: the Series aggregate     *)
(* (seasons, episodes, derived counts), the Movie documents and their      *)
(* slugs, the refresh-token handling of the auth controller, the ad        *)
(* counters and the list endpoints' publication filter.                    *)
(***************************************************************************)
EXTENDS Integers, Sequences, FiniteSets, TLC

VARIABLES series, movies, users, issued, ads, now, resp, flight

vars == <<series, movies, users, issued, ads, now, resp, flight>>

(***************************************************************************)
(* Bounds of the model.                                                    *)
(***************************************************************************)
MaxSeries == 1
MaxSeasonNo == 1
MaxEpisodeNo == 2
MaxSeasons == 2
MaxEpisodes == 2
MaxViews == 1
MaxServers == 1
MaxProcs == 2

SeriesIds == 1..MaxSeries
SeasonNos == 0..MaxSeasonNo
EpisodeNos == 1..MaxEpisodeNo
Procs == 1..MaxProcs

(***************************************************************************)
(* Values.                                                                 *)
(***************************************************************************)
NoDoc == [none |-> TRUE]
NoResp == [op |-> "none", status |-> 0]
Null == [null |-> TRUE]

\* flight[p] is where request handler p stands: idle, between the read of a
\* document and its save (with what it read), or answered.
Idle == [op |-> "idle", pc |-> "idle"]

\* A handler that runs from its read to its answer without another handler
\* in between answers with r.
Answer(r) == resp' = r /\ UNCHANGED flight

\* {...doc, ...body}: the fields the body names replace the document's.
ApplyPatch(doc, body) ==
  [f \in DOMAIN doc |-> IF f \in DOMAIN body THEN body[f] ELSE doc[f]]

\* req.user as the authentication middleware leaves it: an id and a role.
Principals == {"admin", "mod1", "mod2"}

Role(u) ==
  CASE u = "admin" -> "admin"
    [] u \in {"mod1", "mod2"} -> "moderator"
    [] OTHER -> "none"

\* A request without credentials on an optionalAuth route.
Anon == "anon"

AdminStatuses == {"Draft", "Published", "Pending", "Archived"}

\* A number as it arrives in a JSON or url-encoded request body: a JSON
\* number, a numeric string, or absent.
JNum(n) == [t |-> "num", v |-> n]
JStr(n) == [t |-> "str", v |-> n]
JUndef == [t |-> "undef", v |-> 0]
JText(s) == [t |-> "text", s |-> s]
JBool(b) == [t |-> "bool", b |-> b]

JsonNumbers(S) == {JNum(n) : n \in S} \cup {JStr(n) : n \in S} \cup {JUndef}

\* JavaScript's === between a stored Number and a request value.
StrictEq(stored, j) == j.t = "num" /\ j.v = stored

\* JavaScript's == between a stored Number and a route parameter (always a
\* string), given by the number the string denotes.
LooseEq(stored, p) == stored = p

\* Mongoose's cast of a request value to a Number path.
CastNumber(j) == j.v

(***************************************************************************)
(* Strings are sequences of one-character strings.                         *)
(***************************************************************************)
TheMatrix == <<"T", "h", "e", " ", "M", "a", "t", "r", "i", "x">>
UpBang == <<"U", "p", "!">>
Up == <<"U", "p">>
UpDashUp == <<"U", "p", " ", "-", " ", "U", "p">>

Titles == {TheMatrix, UpBang, Up, UpDashUp}
Years == {1999, 2003}

toLowerCase(c) ==
  CASE c = "T" -> "t"
    [] c = "M" -> "m"
    [] c = "U" -> "u"
    [] c = "É" -> "é"
    [] OTHER -> c

WordChars == {"T", "M", "U", "h", "e", "a", "t", "r", "i", "x", "p", "m", "u",
              "n", "d", "_", "0", "1", "2", "3", "4", "5", "6", "7", "8", "9"}

RECURSIVE MapSeq(_, _)
MapSeq(F(_), s) == IF s = <<>> THEN <<>> ELSE F(Head(s)) \o MapSeq(F, Tail(s))

RECURSIVE TrimLeft(_, _)
TrimLeft(s, drop) ==
  IF s # <<>> /\ Head(s) \in drop THEN TrimLeft(Tail(s), drop) ELSE s

RECURSIVE TrimRight(_, _)
TrimRight(s, drop) ==
  IF s # <<>> /\ s[Len(s)] \in drop
  THEN TrimRight(SubSeq(s, 1, Len(s) - 1), drop)
  ELSE s

Trim(s, drop) == TrimRight(TrimLeft(s, drop), drop)

\* String.prototype.replace(/[set]+/g, by): every maximal run of characters
\* of the set becomes one copy of by.
RECURSIVE ReplaceRuns(_, _, _)
ReplaceRuns(s, set, by) ==
  IF s = <<>> THEN <<>>
  ELSE IF Head(s) \in set
       THEN by \o ReplaceRuns(TrimLeft(s, set), set, by)
       ELSE <<Head(s)>> \o ReplaceRuns(Tail(s), set, by)

RECURSIVE DigitsOf(_)
DigitsOf(n) ==
  LET d == <<"0", "1", "2", "3", "4", "5", "6", "7", "8", "9">>[(n % 10) + 1]
  IN IF n < 10 THEN <<d>> ELSE DigitsOf(n \div 10) \o <<d>>

\* slugify(title, { lower: true, remove: /[*+~.()'"!:@]/g, replacement: '-' })
SlugifyRemove == {"*", "+", "~", ".", "(", ")", "'", "\"", "!", ":", "@"}

SlugifyChar(c) ==
  LET mapped == IF c = "&" THEN <<"a", "n", "d">>
                ELSE IF c = "-" THEN <<" ">>
                ELSE <<c>>
  IN SelectSeq(mapped, LAMBDA x : x \notin SlugifyRemove)

slugify(title) ==
  LET kept == MapSeq(SlugifyChar, title)
      dashed == ReplaceRuns(Trim(kept, {" "}), {" "}, <<"-">>)
  IN MapSeq(LAMBDA c : <<toLowerCase(c)>>, dashed)

\* The slug part of the schemas' pre('save') hooks.
SaveSlug(title, releaseYear) ==
  IF releaseYear # 0
  THEN slugify(title) \o <<"-">> \o DigitsOf(releaseYear)
  ELSE slugify(title)

\* helpers.js generateSlug(title, year); year = 0 stands for no year.
generateSlug_caseKept(title, year) ==
  LET kept == SelectSeq(Trim(title, {" "}),
                        LAMBDA c : c \in WordChars \cup {" ", "-"})
      dashed == ReplaceRuns(kept, {" ", "_", "-"}, <<"-">>)
      baseSlug == Trim(dashed, {"-"})
  IN IF year # 0 THEN baseSlug \o <<"-">> \o DigitsOf(year) ELSE baseSlug

generateSlug(title, year) ==
  LET lower == MapSeq(LAMBDA c : <<toLowerCase(c)>>, title)
      kept == SelectSeq(Trim(lower, {" "}),
                        LAMBDA c : c \in WordChars \cup {" ", "-"})
      dashed == ReplaceRuns(kept, {" ", "_", "-"}, <<"-">>)
      baseSlug == Trim(dashed, {"-"})
  IN IF year # 0 THEN baseSlug \o <<"-">> \o DigitsOf(year) ELSE baseSlug

(***************************************************************************)
(* The Series aggregate.                                                   *)
(***************************************************************************)
Season(n, eps) == [seasonNumber |-> n, episodes |-> eps]
Episode(n) == [episodeNumber |-> n, views |-> 0, servers |-> 0]

RECURSIVE SumEpisodes(_)
SumEpisodes(seasons) ==
  IF seasons = <<>> THEN 0
  ELSE Len(Head(seasons).episodes) + SumEpisodes(Tail(seasons))

\* Array.prototype.find / findIndex over a set of matching indexes: the first
\* matching index, 0 when there is none.
FirstOf(matches) ==
  IF matches = {} THEN 0 ELSE CHOOSE k \in matches : \A l \in matches : k <= l

\* series.seasons.find(s => s.seasonNumber === seasonNumber)
FindSeasonStrict(seasons, j) ==
  FirstOf({k \in 1..Len(seasons) : StrictEq(seasons[k].seasonNumber, j)})

\* series.seasons.find(s => s.seasonNumber == seasonNumber)
FindSeasonLoose(seasons, p) ==
  FirstOf({k \in 1..Len(seasons) : LooseEq(seasons[k].seasonNumber, p)})

\* season.episodes.find(e => e.episodeNumber === episodeData.episodeNumber)
FindEpisodeStrict(episodes, j) ==
  FirstOf({k \in 1..Len(episodes) : StrictEq(episodes[k].episodeNumber, j)})

\* season.episodes.find(e => e.episodeNumber == episodeNumber)
FindEpisodeLoose(episodes, p) ==
  FirstOf({k \in 1..Len(episodes) : LooseEq(episodes[k].episodeNumber, p)})

\* seriesSchema.pre('save'): the slug when the title changed or the document
\* is new, the derived counts always.
seriesPreSave_keepsEpisodeCount(doc, isNew, titleModified) ==
  [doc EXCEPT
     !.slug = IF titleModified \/ isNew THEN SaveSlug(doc.title, doc.releaseYear) ELSE @,
     !.numberOfSeasons = Len(doc.seasons)]

seriesPreSave(doc, isNew, titleModified) ==
  [doc EXCEPT
     !.slug = IF titleModified \/ isNew THEN SaveSlug(doc.title, doc.releaseYear) ELSE @,
     !.numberOfEpisodes = SumEpisodes(doc.seasons),
     !.numberOfSeasons = Len(doc.seasons)]

\* new Series({...req.body, addedBy}) with the schema defaults.
NewSeries(title, year, status, seasons, nSeasons, tmdb, u) ==
  [title |-> title, releaseYear |-> year, slug |-> <<>>,
   adminStatus |-> status, seasons |-> seasons,
   numberOfSeasons |-> nSeasons, numberOfEpisodes |-> 0,
   views |-> 0, tmdbId |-> tmdb, imdbId |-> "absent",
   genres |-> {}, language |-> {}, rating |-> 0, imdbRating |-> 0, likes |-> 0,
   createdAt |-> now,
   addedBy |-> u, lastModifiedBy |-> "none"]

FreeSeriesId == CHOOSE i \in SeriesIds : series[i] = NoDoc /\ \A k \in 1..(i - 1) : series[k] # NoDoc

\* The unique index on slug: another stored series holds the slug.
SeriesSlugTaken(slug, self) ==
  \E k \in SeriesIds : k # self /\ series[k] # NoDoc /\ series[k].slug = slug

Reply(op, status, u, i, sn, en) ==
  Answer([op |-> op, status |-> status, user |-> u, id |-> i, sn |-> sn, en |-> en])

\* The answer to a create request, with the request it answers: valid is the
\* outcome of the route's validators, schemaOk that of the schema's.
CreateReply(op, status, u, i, valid, schemaOk, title, year) ==
  Answer([op |-> op, status |-> status, user |-> u, id |-> i, sn |-> JUndef,
           en |-> JUndef, valid |-> valid, schemaOk |-> schemaOk,
           title |-> title, year |-> year])

\* The ownership test of the mutating handlers.
AccessDenied(u, doc) == Role(u) # "admin" /\ doc.addedBy # u

createSeries(u, valid, title, year, status, seasons, nSeasons, body) ==
  LET doc == seriesPreSave(ApplyPatch(NewSeries(title, year, status, seasons, nSeasons, 0, u), body),
                           TRUE, TRUE)
  IN /\ UNCHANGED <<movies, users, issued, ads, now>>
     /\ IF ~valid
        THEN CreateReply("createSeries", 400, u, 0, valid, nSeasons >= 1, title, year) /\ UNCHANGED series
        ELSE IF nSeasons < 1
        THEN CreateReply("createSeries", 500, u, 0, valid, nSeasons >= 1, title, year) /\ UNCHANGED series
        ELSE IF SeriesSlugTaken(doc.slug, 0)
        THEN CreateReply("createSeries", 409, u, 0, valid, nSeasons >= 1, title, year) /\ UNCHANGED series
        ELSE /\ \E i \in SeriesIds : series[i] = NoDoc
             /\ series' = [series EXCEPT ![FreeSeriesId] = doc]
             /\ CreateReply("createSeries", 201, u, FreeSeriesId, valid, nSeasons >= 1, title, year)

addSeason(u, i, seasonNumber) ==
  LET doc == series[i]
  IN /\ UNCHANGED <<movies, users, issued, ads, now>>
     /\ IF doc = NoDoc
        THEN Reply("addSeason", 404, u, i, seasonNumber, JUndef) /\ UNCHANGED series
        ELSE IF AccessDenied(u, doc)
        THEN Reply("addSeason", 403, u, i, seasonNumber, JUndef) /\ UNCHANGED series
        ELSE IF FindSeasonStrict(doc.seasons, seasonNumber) # 0
        THEN Reply("addSeason", 409, u, i, seasonNumber, JUndef) /\ UNCHANGED series
        ELSE IF seasonNumber.t = "undef"
        THEN Reply("addSeason", 500, u, i, seasonNumber, JUndef) /\ UNCHANGED series
        ELSE /\ Len(doc.seasons) < MaxSeasons
             /\ series' = [series EXCEPT ![i] = seriesPreSave(
                  [doc EXCEPT !.seasons = Append(@, Season(CastNumber(seasonNumber), <<>>)),
                              !.lastModifiedBy = u], FALSE, FALSE)]
             /\ Reply("addSeason", 201, u, i, seasonNumber, JUndef)

addEpisode(u, i, seasonNumber, episodeNumber) ==
  LET doc == series[i]
      k == FindSeasonLoose(doc.seasons, seasonNumber)
      sn == JStr(seasonNumber)
  IN /\ UNCHANGED <<movies, users, issued, ads, now>>
     /\ IF doc = NoDoc
        THEN Reply("addEpisode", 404, u, i, sn, episodeNumber) /\ UNCHANGED series
        ELSE IF AccessDenied(u, doc)
        THEN Reply("addEpisode", 403, u, i, sn, episodeNumber) /\ UNCHANGED series
        ELSE IF k = 0
        THEN Reply("addEpisode", 404, u, i, sn, episodeNumber) /\ UNCHANGED series
        ELSE IF FindEpisodeStrict(doc.seasons[k].episodes, episodeNumber) # 0
        THEN Reply("addEpisode", 409, u, i, sn, episodeNumber) /\ UNCHANGED series
        ELSE IF episodeNumber.t = "undef" \/ CastNumber(episodeNumber) < 1
        THEN Reply("addEpisode", 500, u, i, sn, episodeNumber) /\ UNCHANGED series
        ELSE /\ Len(doc.seasons[k].episodes) < MaxEpisodes
             /\ series' = [series EXCEPT ![i] = seriesPreSave(
                  [doc EXCEPT !.seasons[k].episodes = Append(@, Episode(CastNumber(episodeNumber))),
                              !.lastModifiedBy = u], FALSE, FALSE)]
             /\ Reply("addEpisode", 201, u, i, sn, episodeNumber)

\* seriesSchema.methods.addEpisode(seasonNumber, episodeData), called on the
\* loaded series i.  For a missing season the method pushes a plain object
\* onto this.seasons, which the document array casts to a new subdocument,
\* and then pushes the episode onto the plain object it still holds: the
\* subdocument that is saved has no episodes.
methodAddEpisode(i, seasonNumber, episodeNumber) ==
  LET doc == series[i]
      k == FindSeasonStrict(doc.seasons, JNum(seasonNumber))
      Done(status) == Reply("Series.addEpisode", status, Anon, i, JNum(seasonNumber),
                            JNum(episodeNumber))
  IN /\ UNCHANGED <<movies, users, issued, ads, now>>
     /\ doc # NoDoc
     /\ IF k = 0
        THEN /\ Len(doc.seasons) < MaxSeasons
             /\ series' = [series EXCEPT ![i] = seriesPreSave(
                  [doc EXCEPT !.seasons = Append(@, Season(seasonNumber, <<>>))],
                  FALSE, FALSE)]
             /\ Done(200)
        ELSE /\ Len(doc.seasons[k].episodes) < MaxEpisodes
             /\ series' = [series EXCEPT ![i] = seriesPreSave(
                  [doc EXCEPT !.seasons[k].episodes = Append(@, Episode(episodeNumber))],
                  FALSE, FALSE)]
             /\ Done(200)

\* GET /:identifier, optionalAuth: the view increment and its save.
getSeries(u, i) ==
  LET doc == series[i]
  IN /\ UNCHANGED <<movies, users, issued, ads, now>>
     /\ IF doc = NoDoc \/ (Role(u) # "admin" /\ doc.adminStatus # "Published")
        THEN Reply("getSeries", 404, u, i, JUndef, JUndef) /\ UNCHANGED series
        ELSE /\ doc.views < MaxViews
             /\ series' = [series EXCEPT ![i] =
                  seriesPreSave([doc EXCEPT !.views = @ + 1], FALSE, FALSE)]
             /\ Reply("getSeries", 200, u, i, JUndef, JUndef)

\* GET /:id/season/:seasonNumber/episode/:episodeNumber, no authentication.
getEpisode(i, seasonNumber, episodeNumber) ==
  LET doc == series[i]
      k == FindSeasonLoose(doc.seasons, seasonNumber)
      l == FindEpisodeLoose(doc.seasons[k].episodes, episodeNumber)
      sn == JStr(seasonNumber)
      en == JStr(episodeNumber)
  IN /\ UNCHANGED <<movies, users, issued, ads, now>>
     /\ IF doc = NoDoc
        THEN Reply("getEpisode", 404, Anon, i, sn, en) /\ UNCHANGED series
        ELSE IF k = 0
        THEN Reply("getEpisode", 404, Anon, i, sn, en) /\ UNCHANGED series
        ELSE IF l = 0
        THEN Reply("getEpisode", 404, Anon, i, sn, en) /\ UNCHANGED series
        ELSE /\ doc.seasons[k].episodes[l].views < MaxViews
             /\ series' = [series EXCEPT ![i] = seriesPreSave(
                  [doc EXCEPT !.seasons[k].episodes[l].views = @ + 1], FALSE, FALSE)]
             /\ Reply("getEpisode", 200, Anon, i, sn, en)

\* PUT /:id/season/:seasonNumber/episode/:episodeNumber with a body that may
\* carry a new episodeNumber.
updateEpisode(u, i, seasonNumber, episodeNumber, newNumber) ==
  LET doc == series[i]
      k == FindSeasonLoose(doc.seasons, seasonNumber)
      l == FindEpisodeLoose(doc.seasons[k].episodes, episodeNumber)
      sn == JStr(seasonNumber)
      en == JStr(episodeNumber)
  IN /\ UNCHANGED <<movies, users, issued, ads, now>>
     /\ IF doc = NoDoc
        THEN Reply("updateEpisode", 404, u, i, sn, en) /\ UNCHANGED series
        ELSE IF AccessDenied(u, doc)
        THEN Reply("updateEpisode", 403, u, i, sn, en) /\ UNCHANGED series
        ELSE IF k = 0
        THEN Reply("updateEpisode", 404, u, i, sn, en) /\ UNCHANGED series
        ELSE IF l = 0
        THEN Reply("updateEpisode", 404, u, i, sn, en) /\ UNCHANGED series
        ELSE IF newNumber.t # "undef" /\ CastNumber(newNumber) < 1
        THEN Reply("updateEpisode", 500, u, i, sn, en) /\ UNCHANGED series
        ELSE /\ series' = [series EXCEPT ![i] = seriesPreSave(
                  [doc EXCEPT !.seasons[k].episodes[l].episodeNumber =
                                 IF newNumber.t = "undef" THEN @ ELSE CastNumber(newNumber),
                              !.lastModifiedBy = u], FALSE, FALSE)]
             /\ Reply("updateEpisode", 200, u, i, sn, en)

\* POST /:id/season/:seasonNumber/episode/:episodeNumber/servers
addServerToEpisode(u, i, seasonNumber, episodeNumber, serverValid) ==
  LET doc == series[i]
      k == FindSeasonLoose(doc.seasons, seasonNumber)
      l == FindEpisodeLoose(doc.seasons[k].episodes, episodeNumber)
      sn == JStr(seasonNumber)
      en == JStr(episodeNumber)
  IN /\ UNCHANGED <<movies, users, issued, ads, now>>
     /\ IF doc = NoDoc
        THEN Reply("addServerToEpisode", 404, u, i, sn, en) /\ UNCHANGED series
        ELSE IF AccessDenied(u, doc)
        THEN Reply("addServerToEpisode", 403, u, i, sn, en) /\ UNCHANGED series
        ELSE IF k = 0
        THEN Reply("addServerToEpisode", 404, u, i, sn, en) /\ UNCHANGED series
        ELSE IF l = 0
        THEN Reply("addServerToEpisode", 404, u, i, sn, en) /\ UNCHANGED series
        ELSE IF ~serverValid
        THEN Reply("addServerToEpisode", 500, u, i, sn, en) /\ UNCHANGED series
        ELSE /\ doc.seasons[k].episodes[l].servers < MaxServers
             /\ series' = [series EXCEPT ![i] = seriesPreSave(
                  [doc EXCEPT !.seasons[k].episodes[l].servers = @ + 1,
                              !.lastModifiedBy = u], FALSE, FALSE)]
             /\ Reply("addServerToEpisode", 200, u, i, sn, en)

\* PATCH /:id/status, requireAdmin: Series.findByIdAndUpdate, which runs no
\* save hook.
updateSeriesStatus(u, i, adminStatus) ==
  LET doc == series[i]
  IN /\ UNCHANGED <<movies, users, issued, ads, now>>
     /\ IF doc = NoDoc
        THEN Reply("updateSeriesStatus", 404, u, i, JUndef, JUndef) /\ UNCHANGED series
        ELSE /\ series' = [series EXCEPT ![i] =
                  [doc EXCEPT !.adminStatus = adminStatus, !.lastModifiedBy = u]]
             /\ Reply("updateSeriesStatus", 200, u, i, JUndef, JUndef)

(***************************************************************************)
(* The TMDB importer (TMDBService).  What TMDB answers is an input.        *)
(***************************************************************************)
MaxTmdbId == 1
MaxTmdbSeason == 2
MaxTmdbEpisodes == 1
CurrentYear == 2026

TmdbIds == 1..MaxTmdbId

\* What an import returns or throws, with the call it answers.
ImportReply(op, status, u, i, tmdbId, forceUpdate) ==
  Answer([op |-> op, status |-> status, user |-> u, id |-> i, sn |-> JUndef,
           en |-> JUndef, tmdbId |-> tmdbId, forceUpdate |-> forceUpdate])

\* /tv/{id}: name, year of first_air_date (0: none), number_of_seasons,
\* number_of_episodes, and whether overview and poster_path are present.
TmdbSeriesAnswers ==
  [name : {TheMatrix}, year : {0, 1999}, number_of_seasons : {0, MaxTmdbSeason},
   number_of_episodes : {MaxTmdbSeason * MaxTmdbEpisodes}, complete : BOOLEAN]

\* tmdbSeries.seasons: the season numbers TMDB lists, in order.
TmdbSeasonLists == {<<>>, <<0, 1>>, [k \in 1..MaxTmdbSeason |-> k]}

\* /tv/{id}/season/{n}: -1 when the request fails, else the number of
\* episodes of the season.
TmdbSeasonAnswers == [1..MaxTmdbSeason -> -1..MaxTmdbEpisodes]

\* mapSeasonData
mapSeasonData(n, nEpisodes) == Season(n, [e \in 1..nEpisodes |-> Episode(e)])

\* mapSeriesData: the fields the update or the new document receives.
mapSeriesData(t, tmdbId, userId) ==
  [title |-> t.name,
   slug |-> generateSlug(t.name, t.year),
   releaseYear |-> IF t.year # 0 THEN t.year ELSE CurrentYear,
   numberOfSeasons |-> t.number_of_seasons,
   numberOfEpisodes |-> t.number_of_episodes,
   tmdbId |-> tmdbId, imdbId |-> "",
   adminStatus |-> "Draft", addedBy |-> userId, seasons |-> <<>>]

\* The loop of importSeasons over tmdbSeasons, on the loaded document's
\* seasons.
RECURSIVE importSeasonsLoop(_, _, _)
importSeasonsLoop(seasons, tmdbSeasons, answers) ==
  IF tmdbSeasons = <<>> THEN seasons
  ELSE LET n == Head(tmdbSeasons)
           rest == Tail(tmdbSeasons)
           existingSeasonIndex ==
             FirstOf({k \in 1..Len(seasons) : seasons[k].seasonNumber = n})
           seasonData == mapSeasonData(n, answers[n])
       IN IF n = 0 THEN importSeasonsLoop(seasons, rest, answers)
          ELSE IF answers[n] < 0 THEN importSeasonsLoop(seasons, rest, answers)
          ELSE IF existingSeasonIndex > 0
          THEN importSeasonsLoop([seasons EXCEPT ![existingSeasonIndex] = seasonData],
                                 rest, answers)
          ELSE importSeasonsLoop(Append(seasons, seasonData), rest, answers)

\* importSeasons: load, loop, save.
importSeasons(doc, tmdbSeasons, answers, userId) ==
  seriesPreSave([doc EXCEPT !.seasons = importSeasonsLoop(@, tmdbSeasons, answers),
                            !.lastModifiedBy = userId], FALSE, FALSE)

\* TMDBService.importSeasons(seriesId, tmdbSeriesId, tmdbSeasons, userId) on
\* the stored series i.  answers[n] is what getSeasonDetails gives for season
\* n (its episode count, -1 for a failed request); invalid holds the seasons
\* whose fetched data breaks a schema rule that mapSeasonData passes on
\* unchecked (an overview of more than 1000 characters, an episode without
\* a name).  Status 200 stands for a normal return, 500 for a thrown error.
importSeasonsOf(i, tmdbSeasons, answers, invalid, userId) ==
  LET doc == series[i]
      after == importSeasons(doc, tmdbSeasons, answers, userId)
      kept == {tmdbSeasons[k] : k \in {l \in 1..Len(tmdbSeasons) :
                 tmdbSeasons[l] # 0 /\ answers[tmdbSeasons[l]] >= 0}}
      reply(status) ==
        Answer([op |-> "importSeasons", status |-> status, user |-> userId, id |-> i,
                sn |-> JUndef, en |-> JUndef, tmdbSeasons |-> tmdbSeasons,
                answers |-> answers, invalid |-> invalid])
  IN /\ UNCHANGED <<movies, users, issued, ads, now>>
     /\ IF doc = NoDoc
        THEN reply(500) /\ UNCHANGED series
        ELSE IF kept \cap invalid # {}
        THEN reply(500) /\ UNCHANGED series        \* save(): ValidationError
        ELSE /\ Len(after.seasons) <= MaxSeasons
             /\ series' = [series EXCEPT ![i] = after]
             /\ reply(200)

\* A unique index would be violated by storing doc under id self.
SeriesDuplicateKey(doc, self) ==
  \E k \in SeriesIds :
    /\ k # self /\ series[k] # NoDoc
    /\ \/ series[k].slug = doc.slug
       \/ doc.tmdbId # 0 /\ series[k].tmdbId = doc.tmdbId
       \/ doc.imdbId # "absent" /\ series[k].imdbId = doc.imdbId

SeriesByTmdbId(tmdbId) ==
  FirstOf({k \in SeriesIds : series[k] # NoDoc /\ series[k].tmdbId = tmdbId})

\* Series.findByIdAndUpdate(existing._id, updateData, { runValidators: true })
importSeriesUpdate(doc, data, userId, updateSeasons) ==
  [doc EXCEPT !.title = data.title, !.slug = data.slug,
              !.releaseYear = data.releaseYear,
              !.numberOfSeasons = data.numberOfSeasons,
              !.numberOfEpisodes = data.numberOfEpisodes,
              !.tmdbId = data.tmdbId, !.imdbId = data.imdbId,
              !.adminStatus = data.adminStatus, !.addedBy = data.addedBy,
              !.lastModifiedBy = userId,
              !.seasons = IF updateSeasons THEN data.seasons ELSE @]

\* new Series(seriesData) and its save.
importSeriesNew(data) ==
  seriesPreSave(
    [title |-> data.title, releaseYear |-> data.releaseYear, slug |-> data.slug,
     adminStatus |-> data.adminStatus, seasons |-> data.seasons,
     numberOfSeasons |-> data.numberOfSeasons,
     numberOfEpisodes |-> data.numberOfEpisodes,
     views |-> 0, tmdbId |-> data.tmdbId, imdbId |-> data.imdbId,
     addedBy |-> data.addedBy, lastModifiedBy |-> "none"], TRUE, TRUE)

\* importSeries(tmdbId, userId, { forceUpdate, updateSeasons, importSeasons }).
\* Status 200 stands for a normal return, 500 for a thrown error and 409 for
\* the 'already exists' error.
importSeries(tmdbId, userId, forceUpdate, updateSeasons, withSeasons) ==
  LET e == SeriesByTmdbId(tmdbId)
      Done(status, i) == ImportReply("importSeries", status, userId, i, tmdbId, forceUpdate)
  IN /\ UNCHANGED <<movies, users, issued, ads, now>>
     /\ IF e # 0 /\ ~forceUpdate
        THEN Done(409, e) /\ UNCHANGED series
        ELSE
          \/ Done(500, e) /\ UNCHANGED series      \* the TMDB request failed
          \/ \E t \in TmdbSeriesAnswers :
               LET data == mapSeriesData(t, tmdbId, userId)
                   i == IF e # 0 THEN e ELSE FreeSeriesId
                   stored == IF e # 0
                             THEN importSeriesUpdate(series[e], data, userId, updateSeasons)
                             ELSE importSeriesNew(data)
               IN IF ~t.complete \/ data.numberOfSeasons < 1 \/ SeriesDuplicateKey(stored, e)
                  THEN Done(500, e) /\ UNCHANGED series
                  ELSE /\ e # 0 \/ \E f \in SeriesIds : series[f] = NoDoc
                       /\ IF ~withSeasons
                          THEN series' = [series EXCEPT ![i] = stored] /\ Done(200, i)
                          ELSE \E tmdbSeasons \in TmdbSeasonLists, answers \in TmdbSeasonAnswers :
                                 LET after == importSeasons(stored, tmdbSeasons, answers, userId)
                                 IN /\ Len(after.seasons) <= MaxSeasons
                                    /\ series' = [series EXCEPT ![i] = after]
                                    /\ Done(200, i)

(***************************************************************************)
(* Movies: the Movie model, the movie controller and the TMDB movie import. *)
(***************************************************************************)
MaxMovies == 2

MovieIds == 1..MaxMovies
ServerIds == 1..MaxServers

\* movieSchema.pre('save'): the slug when the title changed or the document
\* is new.
moviePreSave(doc, isNew, titleModified) ==
  [doc EXCEPT
     !.slug = IF titleModified \/ isNew THEN SaveSlug(doc.title, doc.releaseYear) ELSE @]

\* new Movie({...req.body, addedBy}) with the schema defaults.
NewMovie(title, year, slug, status, tmdb, imdb, u) ==
  [title |-> title, releaseYear |-> year, slug |-> slug, adminStatus |-> status,
   servers |-> {}, views |-> 0, tmdbId |-> tmdb, imdbId |-> imdb,
   genres |-> {}, language |-> {}, rating |-> 0, imdbRating |-> 0, likes |-> 0,
   createdAt |-> now,
   addedBy |-> u, lastModifiedBy |-> "none"]

FreeMovieId == CHOOSE i \in MovieIds : movies[i] = NoDoc /\ \A k \in 1..(i - 1) : movies[k] # NoDoc

\* A unique index would be violated by storing doc under id self.
MovieDuplicateKey(doc, self) ==
  \E k \in MovieIds :
    /\ k # self /\ movies[k] # NoDoc
    /\ \/ movies[k].slug = doc.slug
       \/ doc.tmdbId # 0 /\ movies[k].tmdbId = doc.tmdbId
       \/ doc.imdbId # "absent" /\ movies[k].imdbId = doc.imdbId

MovieReply(op, status, u, i) == Reply(op, status, u, i, JUndef, JUndef)

createMovie_noUniqueIndex(u, valid, title, year, status, body) ==
  LET doc == moviePreSave(ApplyPatch(NewMovie(title, year, <<>>, status, 0, "absent", u), body),
                          TRUE, TRUE)
  IN /\ UNCHANGED <<series, users, issued, ads, now>>
     /\ IF ~valid
        THEN CreateReply("createMovie", 400, u, 0, valid, TRUE, title, year) /\ UNCHANGED movies
        ELSE IF FALSE
        THEN CreateReply("createMovie", 409, u, 0, valid, TRUE, title, year) /\ UNCHANGED movies
        ELSE /\ \E i \in MovieIds : movies[i] = NoDoc
             /\ movies' = [movies EXCEPT ![FreeMovieId] = doc]
             /\ CreateReply("createMovie", 201, u, FreeMovieId, valid, TRUE, title, year)

createMovie(u, valid, title, year, status, body) ==
  LET doc == moviePreSave(ApplyPatch(NewMovie(title, year, <<>>, status, 0, "absent", u), body),
                          TRUE, TRUE)
  IN /\ UNCHANGED <<series, users, issued, ads, now>>
     /\ IF ~valid
        THEN CreateReply("createMovie", 400, u, 0, valid, TRUE, title, year) /\ UNCHANGED movies
        ELSE IF MovieDuplicateKey(doc, 0)
        THEN CreateReply("createMovie", 409, u, 0, valid, TRUE, title, year) /\ UNCHANGED movies
        ELSE /\ \E i \in MovieIds : movies[i] = NoDoc
             /\ movies' = [movies EXCEPT ![FreeMovieId] = doc]
             /\ CreateReply("createMovie", 201, u, FreeMovieId, valid, TRUE, title, year)

\* GET /:identifier, optionalAuth: the view increment and its save.
getMovie(u, i) ==
  LET doc == movies[i]
  IN /\ UNCHANGED <<series, users, issued, ads, now>>
     /\ IF doc = NoDoc \/ (Role(u) # "admin" /\ doc.adminStatus # "Published")
        THEN MovieReply("getMovie", 404, u, i) /\ UNCHANGED movies
        ELSE /\ doc.views < MaxViews
             /\ movies' = [movies EXCEPT ![i] =
                  moviePreSave([doc EXCEPT !.views = @ + 1], FALSE, FALSE)]
             /\ MovieReply("getMovie", 200, u, i)

\* Movie.findByIdAndUpdate(id, {...req.body, lastModifiedBy}): the body's
\* title and releaseYear are written as they are; no save hook runs.
updateMovie_ownerUnchecked(u, i, valid, title, year, body) ==
  LET doc == movies[i]
      updated == [ApplyPatch(doc, body) EXCEPT !.title = title, !.releaseYear = year,
                                               !.lastModifiedBy = u]
  IN /\ UNCHANGED <<series, users, issued, ads, now>>
     /\ IF ~valid
        THEN MovieReply("updateMovie", 400, u, i) /\ UNCHANGED movies
        ELSE IF doc = NoDoc
        THEN MovieReply("updateMovie", 404, u, i) /\ UNCHANGED movies
        ELSE /\ movies' = [movies EXCEPT ![i] = updated]
             /\ MovieReply("updateMovie", 200, u, i)

updateMovie(u, i, valid, title, year, body) ==
  LET doc == movies[i]
      updated == [ApplyPatch(doc, body) EXCEPT !.title = title, !.releaseYear = year,
                                               !.lastModifiedBy = u]
  IN /\ UNCHANGED <<series, users, issued, ads, now>>
     /\ IF ~valid
        THEN MovieReply("updateMovie", 400, u, i) /\ UNCHANGED movies
        ELSE IF doc = NoDoc
        THEN MovieReply("updateMovie", 404, u, i) /\ UNCHANGED movies
        ELSE IF AccessDenied(u, doc)
        THEN MovieReply("updateMovie", 403, u, i) /\ UNCHANGED movies
        ELSE /\ movies' = [movies EXCEPT ![i] = updated]
             /\ MovieReply("updateMovie", 200, u, i)

deleteMovie(u, i) ==
  LET doc == movies[i]
  IN /\ UNCHANGED <<series, users, issued, ads, now>>
     /\ IF doc = NoDoc
        THEN MovieReply("deleteMovie", 404, u, i) /\ UNCHANGED movies
        ELSE IF AccessDenied(u, doc)
        THEN MovieReply("deleteMovie", 403, u, i) /\ UNCHANGED movies
        ELSE /\ movies' = [movies EXCEPT ![i] = NoDoc]
             /\ MovieReply("deleteMovie", 200, u, i)

\* POST /:id/servers: the pushed server gets a fresh _id.
addServerToMovie(u, i, serverValid) ==
  LET doc == movies[i]
  IN /\ UNCHANGED <<series, users, issued, ads, now>>
     /\ IF doc = NoDoc
        THEN MovieReply("addServerToMovie", 404, u, i) /\ UNCHANGED movies
        ELSE IF AccessDenied(u, doc)
        THEN MovieReply("addServerToMovie", 403, u, i) /\ UNCHANGED movies
        ELSE IF ~serverValid
        THEN MovieReply("addServerToMovie", 500, u, i) /\ UNCHANGED movies
        ELSE \E serverId \in ServerIds \ doc.servers :
               /\ movies' = [movies EXCEPT ![i] = moviePreSave(
                    [doc EXCEPT !.servers = @ \cup {serverId}, !.lastModifiedBy = u],
                    FALSE, FALSE)]
               /\ MovieReply("addServerToMovie", 200, u, i)

\* DELETE /:id/servers/:serverId
removeServerFromMovie(u, i, serverId) ==
  LET doc == movies[i]
  IN /\ UNCHANGED <<series, users, issued, ads, now>>
     /\ IF doc = NoDoc
        THEN MovieReply("removeServerFromMovie", 404, u, i) /\ UNCHANGED movies
        ELSE IF AccessDenied(u, doc)
        THEN MovieReply("removeServerFromMovie", 403, u, i) /\ UNCHANGED movies
        ELSE /\ movies' = [movies EXCEPT ![i] = moviePreSave(
                  [doc EXCEPT !.servers = @ \ {serverId}, !.lastModifiedBy = u],
                  FALSE, FALSE)]
             /\ MovieReply("removeServerFromMovie", 200, u, i)

\* PATCH /:id/status, requireAdmin: Movie.findByIdAndUpdate.
updateMovieStatus(u, i, adminStatus) ==
  LET doc == movies[i]
  IN /\ UNCHANGED <<series, users, issued, ads, now>>
     /\ IF doc = NoDoc
        THEN MovieReply("updateMovieStatus", 404, u, i) /\ UNCHANGED movies
        ELSE /\ movies' = [movies EXCEPT ![i] =
                  [doc EXCEPT !.adminStatus = adminStatus, !.lastModifiedBy = u]]
             /\ MovieReply("updateMovieStatus", 200, u, i)

\* /movie/{id}: title, year of release_date (0: none), and whether the
\* fields the schema requires are present.
TmdbMovieAnswers == [title : {UpDashUp}, year : {0, 1999}, complete : BOOLEAN]

\* mapMovieData
mapMovieData(t, tmdbId, userId) ==
  [title |-> t.title,
   slug |-> generateSlug(t.title, t.year),
   releaseYear |-> IF t.year # 0 THEN t.year ELSE CurrentYear,
   tmdbId |-> tmdbId, imdbId |-> "",
   adminStatus |-> "Draft", addedBy |-> userId]

MovieByTmdbId_neverFinds(tmdbId) == 0

MovieByTmdbId(tmdbId) ==
  FirstOf({k \in MovieIds : movies[k] # NoDoc /\ movies[k].tmdbId = tmdbId})

\* importMovie(tmdbId, userId, { forceUpdate }).  Status 200 stands for a
\* normal return, 409 for 'already exists', 500 for any other thrown error.
importMovie(tmdbId, userId, forceUpdate) ==
  LET e == MovieByTmdbId(tmdbId)
  IN /\ UNCHANGED <<series, users, issued, ads, now>>
     /\ IF e # 0 /\ ~forceUpdate
        THEN ImportReply("importMovie", 409, userId, e, tmdbId, forceUpdate) /\ UNCHANGED movies
        ELSE
          \/ ImportReply("importMovie", 500, userId, e, tmdbId, forceUpdate) /\ UNCHANGED movies
          \/ \E t \in TmdbMovieAnswers :
               LET data == mapMovieData(t, tmdbId, userId)
                   i == IF e # 0 THEN e ELSE FreeMovieId
                   stored ==
                     IF e # 0
                     THEN [movies[e] EXCEPT
                             !.title = data.title, !.slug = data.slug,
                             !.releaseYear = data.releaseYear,
                             !.tmdbId = data.tmdbId, !.imdbId = data.imdbId,
                             !.adminStatus = data.adminStatus,
                             !.addedBy = data.addedBy, !.lastModifiedBy = userId]
                     ELSE moviePreSave(
                            NewMovie(data.title, data.releaseYear, data.slug,
                                     data.adminStatus, data.tmdbId, data.imdbId,
                                     data.addedBy), TRUE, TRUE)
               IN IF ~t.complete \/ MovieDuplicateKey(stored, e)
                  THEN ImportReply("importMovie", 500, userId, e, tmdbId, forceUpdate) /\ UNCHANGED movies
                  ELSE /\ e # 0 \/ \E f \in MovieIds : movies[f] = NoDoc
                       /\ movies' = [movies EXCEPT ![i] = stored]
                       /\ ImportReply("importMovie", 200, userId, i, tmdbId, forceUpdate)

(***************************************************************************)
(* The list and aggregate endpoints.  A query is the adminStatus it asks   *)
(* for; the rest of the query (search, filters, page) is the set of        *)
(* documents it lets through.                                              *)
(***************************************************************************)
AnyStatus == "any"
NoParam == ""

Find(coll, ids, adminStatus, matching) ==
  {i \in ids \cap matching :
     coll[i] # NoDoc /\ (adminStatus = AnyStatus \/ coll[i].adminStatus = adminStatus)}

Items(movieIds, seriesIds) ==
  {<<"movie", i>> : i \in movieIds} \cup {<<"series", i>> : i \in seriesIds}

ListReply(op, status, u, adminStatus, items) ==
  /\ Answer([op |-> op, status |-> status, user |-> u, id |-> 0, sn |-> JUndef,
              en |-> JUndef, adminStatus |-> adminStatus, items |-> items])
  /\ UNCHANGED <<series, movies, users, issued, ads, now>>

\* getMovies: query = { adminStatus: 'Published' }, then the admin override.
getMovies(u, adminStatus, matching) ==
  LET query == IF Role(u) = "admin" /\ adminStatus # NoParam THEN adminStatus
               ELSE "Published"
  IN ListReply("getMovies", 200, u, adminStatus,
               Items(Find(movies, MovieIds, query, matching), {}))

\* getAllSeries: query = {}, then the admin override or the non-admin filter.
getAllSeries(u, adminStatus, matching) ==
  LET query == IF Role(u) = "admin" /\ adminStatus # NoParam THEN adminStatus
               ELSE IF Role(u) # "admin" THEN "Published"
               ELSE AnyStatus
  IN ListReply("getAllSeries", 200, u, adminStatus,
               Items({}, Find(series, SeriesIds, query, matching)))

\* The endpoints whose queries carry adminStatus: 'Published' as written.
PublishedOnly(op, u, adminStatus, mMatching, sMatching) ==
  ListReply(op, 200, u, adminStatus,
            Items(Find(movies, MovieIds, "Published", mMatching),
                  Find(series, SeriesIds, "Published", sMatching)))

\* The stored document of a listed item.
DocOf(item) == IF item[1] = "movie" THEN movies[item[2]] ELSE series[item[2]]

\* buildSortQuery(sortBy, sortOrder): the sort keys in order, each with its
\* direction.
buildSortQuery_trendingByViewsOnly(sortBy, sortOrder) ==
  LET order == IF sortOrder = "asc" THEN 1 ELSE -1
  IN CASE sortBy = "newest" -> <<<<"createdAt", -1>>>>
       [] sortBy = "oldest" -> <<<<"createdAt", 1>>>>
       [] sortBy = "rating" -> <<<<"rating", -1>>, <<"imdbRating", -1>>>>
       [] sortBy = "views" -> <<<<"views", -1>>>>
       [] sortBy = "alphabetical" -> <<<<"title", 1>>>>
       [] sortBy = "year" -> <<<<"releaseYear", -1>>>>
       [] sortBy = "trending" -> <<<<"views", -1>>>>
       [] OTHER -> <<<<sortBy, order>>>>

buildSortQuery(sortBy, sortOrder) ==
  LET order == IF sortOrder = "asc" THEN 1 ELSE -1
  IN CASE sortBy = "newest" -> <<<<"createdAt", -1>>>>
       [] sortBy = "oldest" -> <<<<"createdAt", 1>>>>
       [] sortBy = "rating" -> <<<<"rating", -1>>, <<"imdbRating", -1>>>>
       [] sortBy = "views" -> <<<<"views", -1>>>>
       [] sortBy = "alphabetical" -> <<<<"title", 1>>>>
       [] sortBy = "year" -> <<<<"releaseYear", -1>>>>
       [] sortBy = "trending" -> <<<<"views", -1>>, <<"rating", -1>>, <<"createdAt", -1>>>>
       [] OTHER -> <<<<sortBy, order>>>>

\* How a sort configuration over numeric fields ranks document a against
\* document b: -1 for a first, 1 for b first, 0 when every key ties.
RECURSIVE SortCompare(_, _, _)
SortCompare(a, b, sortConfig) ==
  IF sortConfig = <<>> THEN 0
  ELSE LET field == Head(sortConfig)[1]
           dir == Head(sortConfig)[2]
       IN IF a[field] = b[field] THEN SortCompare(a, b, Tail(sortConfig))
          ELSE IF (a[field] < b[field]) = (dir = 1) THEN -1 ELSE 1

\* find(query).sort(sortConfig): the lists the query can return, documents
\* that tie on every key being in either order.
FindSorted(coll, found, sortConfig) ==
  {g \in [1..Cardinality(found) -> found] :
     \A x, y \in 1..Cardinality(found) :
       x < y => g[x] # g[y] /\ SortCompare(coll[g[x]], coll[g[y]], sortConfig) <= 0}

\* The comparator of getContent's re-sort: negative for a first.  The
\* trending score is taken ten times over to stay in the integers;
\* alphabetical (localeCompare) is left out, sortBy being drawn from the
\* other keys.
ReSortCompare(sortBy, a, b) ==
  CASE sortBy = "newest" -> b.createdAt - a.createdAt
    [] sortBy = "oldest" -> a.createdAt - b.createdAt
    [] sortBy = "rating" -> b.rating - a.rating
    [] sortBy = "views" -> b.views - a.views
    [] sortBy = "year" -> b.releaseYear - a.releaseYear
    [] sortBy = "trending" ->
         (b.views * 7 + b.rating * 100 + b.likes * 3)
         - (a.views * 7 + a.rating * 100 + a.likes * 3)
    [] OTHER -> b.createdAt - a.createdAt

\* allContent.sort(comparator), a stable sort.
RECURSIVE ReSort(_, _)
ReSort(list, sortBy) ==
  IF list = <<>> THEN <<>>
  ELSE LET sorted == ReSort(SubSeq(list, 1, Len(list) - 1), sortBy)
           item == list[Len(list)]
           ahead == Cardinality({k \in 1..Len(sorted) :
                                   ReSortCompare(sortBy, DocOf(sorted[k]), DocOf(item)) <= 0})
       IN SubSeq(sorted, 1, ahead) \o <<item>> \o SubSeq(sorted, ahead + 1, Len(sorted))

\* GET /api/content: Published content of the type asked for, sorted by the
\* database per collection and re-sorted in memory for type=all.  The
\* matching sets stand for the search and filter parameters; the first page
\* holds every document of the store.
getContent(u, adminStatus, type, sortBy, mMatching, sMatching) ==
  LET sortConfig == buildSortQuery(sortBy, "desc")
      mFound == IF type \in {"all", "movie"}
                THEN Find(movies, MovieIds, "Published", mMatching) ELSE {}
      sFound == IF type \in {"all", "series"}
                THEN Find(series, SeriesIds, "Published", sMatching) ELSE {}
  IN \E m \in FindSorted(movies, mFound, sortConfig),
        sr \in FindSorted(series, sFound, sortConfig) :
       LET allContent == [k \in 1..Len(m) |-> <<"movie", m[k]>>]
                         \o [k \in 1..Len(sr) |-> <<"series", sr[k]>>]
           content == IF type = "all" THEN ReSort(allContent, sortBy) ELSE allContent
       IN /\ Answer([op |-> "getContent", status |-> 200, user |-> u, id |-> 0,
                      sn |-> JUndef, en |-> JUndef, adminStatus |-> adminStatus,
                      items |-> {content[k] : k \in 1..Len(content)},
                      type |-> type, sortBy |-> sortBy, content |-> content])
          /\ UNCHANGED <<series, movies, users, issued, ads, now>>

\* GET /search: q shorter than 2 characters is answered 400.
search(u, adminStatus, qOk, mMatching, sMatching) ==
  IF ~qOk THEN ListReply("search", 400, u, adminStatus, {})
  ELSE PublishedOnly("search", u, adminStatus, mMatching, sMatching)

getFeaturedContent(u, adminStatus, mMatching, sMatching) ==
  PublishedOnly("getFeaturedContent", u, adminStatus, mMatching, sMatching)

getTrendingContent(u, adminStatus, mMatching, sMatching) ==
  PublishedOnly("getTrendingContent", u, adminStatus, mMatching, sMatching)

getLatestContent(u, adminStatus, mMatching, sMatching) ==
  PublishedOnly("getLatestContent", u, adminStatus, mMatching, sMatching)

getContentByGenre(u, adminStatus, mMatching, sMatching) ==
  PublishedOnly("getContentByGenre", u, adminStatus, mMatching, sMatching)

\* recommendationQuery on one collection: the ids other than the source's
\* that are Published and share a genre or a language with the source or lie
\* within two years of it.
Recommendable(coll, ids, sourceContent, self) ==
  {i \in ids \ {self} :
     /\ coll[i] # NoDoc
     /\ coll[i].adminStatus = "Published"
     /\ \/ coll[i].genres \cap sourceContent.genres # {}
        \/ coll[i].language \cap sourceContent.language # {}
        \/ /\ coll[i].releaseYear >= sourceContent.releaseYear - 2
           /\ coll[i].releaseYear <= sourceContent.releaseYear + 2}

\* find(query).sort({ rating: -1, views: -1 }).limit(n): the lists the query
\* can return, documents equal in both keys being in either order.
SortLimit(coll, found, n) ==
  LET len == IF Cardinality(found) < n THEN Cardinality(found) ELSE n
  IN {SubSeq(f, 1, len) :
        f \in {g \in [1..Cardinality(found) -> found] :
                 \A x, y \in 1..Cardinality(found) :
                   x < y => /\ g[x] # g[y]
                            /\ \/ coll[g[x]].rating > coll[g[y]].rating
                               \/ /\ coll[g[x]].rating = coll[g[y]].rating
                                  /\ coll[g[x]].views >= coll[g[y]].views}}

\* The rating of a listed item.
RatingOf(item) == IF item[1] = "movie" THEN movies[item[2]].rating ELSE series[item[2]].rating

\* list.sort((a, b) => (b.rating || 0) - (a.rating || 0)), a stable sort.
RECURSIVE SortByRating(_)
SortByRating(list) ==
  IF list = <<>> THEN <<>>
  ELSE LET sorted == SortByRating(SubSeq(list, 1, Len(list) - 1))
           item == list[Len(list)]
           ahead == Cardinality({k \in 1..Len(sorted) : RatingOf(sorted[k]) >= RatingOf(item)})
       IN SubSeq(sorted, 1, ahead) \o <<item>> \o SubSeq(sorted, ahead + 1, Len(sorted))

\* What getRecommendedContent answers, with the request and the merged
\* per-collection lists it was cut from.
RecommendReply(status, u, adminStatus, contentType, contentId, limit, merged, recommendations) ==
  /\ Answer([op |-> "getRecommendedContent", status |-> status, user |-> u, id |-> contentId,
              sn |-> JUndef, en |-> JUndef, adminStatus |-> adminStatus,
              items |-> {recommendations[k] : k \in 1..Len(recommendations)},
              contentType |-> contentType, limit |-> limit, merged |-> merged,
              recommendations |-> recommendations])
  /\ UNCHANGED <<series, movies, users, issued, ads, now>>

\* GET /recommendations?contentId&contentType&limit: the source is looked up
\* whatever its status; each collection gives its ceil(limit / 2) best, the
\* two lists are joined, cut to limit and sorted by rating.
getRecommendedContent(u, adminStatus, contentType, contentId, limit) ==
  LET isMovie == contentType = "Movie"
      sourceContent == IF isMovie
                       THEN (IF contentId \in MovieIds THEN movies[contentId] ELSE NoDoc)
                       ELSE (IF contentId \in SeriesIds THEN series[contentId] ELSE NoDoc)
      Done(status, merged, list) ==
        RecommendReply(status, u, adminStatus, contentType, contentId, limit, merged, list)
  IN IF contentId = 0 \/ contentType = NoParam
     THEN Done(400, <<>>, <<>>)
     ELSE IF sourceContent = NoDoc
     THEN Done(404, <<>>, <<>>)
     ELSE \E movieRecommendations \in
               SortLimit(movies, Recommendable(movies, MovieIds, sourceContent,
                                               IF isMovie THEN contentId ELSE 0),
                         (limit + 1) \div 2),
             seriesRecommendations \in
               SortLimit(series, Recommendable(series, SeriesIds, sourceContent,
                                               IF isMovie THEN 0 ELSE contentId),
                         (limit + 1) \div 2) :
            LET merged == [k \in 1..Len(movieRecommendations) |-> <<"movie", movieRecommendations[k]>>]
                          \o [k \in 1..Len(seriesRecommendations) |-> <<"series", seriesRecommendations[k]>>]
                cut == SubSeq(merged, 1, IF Len(merged) < limit THEN Len(merged) ELSE limit)
            IN Done(200, merged, SortByRating(cut))

(***************************************************************************)
(* Ads: the Ad model's counters and the ad controller.                     *)
(***************************************************************************)
MaxAds == 2
MaxCount == 3

AdIds == 1..MaxAds

\* Dates are seconds on the clock; a date field can also be missing from the
\* document or stored as null.
Unset == -1
NullDate == -2

MinPriority == 1
MaxPriority == 10
DefaultLimit == 5

Placements == {"Header", "Footer"}

\* adValidation, for the fields the model carries: placement is required and
\* one of the enum, priority is an integer in 1..10, dates are ISO 8601.
BodyValid(body) ==
  /\ "placement" \in DOMAIN body
  /\ body.placement \in Placements
  /\ "priority" \in DOMAIN body => body.priority \in MinPriority..MaxPriority
  /\ "startDate" \in DOMAIN body => body.startDate >= 0
  /\ "endDate" \in DOMAIN body => body.endDate >= 0

\* new Ad({...req.body, addedBy}) with the schema's defaults: isActive true,
\* priority 1, empty targeting arrays, startDate Date.now, no endDate,
\* impressions and clicks 0; timestamps sets createdAt.
NewAd(body, u) ==
  [ApplyPatch([impressions |-> 0, clicks |-> 0, isActive |-> TRUE,
               addedBy |-> u, lastModifiedBy |-> "none", placement |-> "",
               priority |-> 1, targetPages |-> {}, targetDevices |-> {},
               targetCountries |-> {}, startDate |-> now, endDate |-> Unset,
               createdAt |-> now], body)
   EXCEPT !.addedBy = u]

\* adSchema.methods.isCurrentlyActive
isCurrentlyActive(ad) ==
  LET startOk == ad.startDate < 0 \/ ad.startDate <= now
      endOk == ad.endDate < 0 \/ ad.endDate >= now
  IN ad.isActive /\ startOk /\ endOk

\* The date window of getActiveAdsByPlacement's query: $lte and $gte match
\* dates only, $exists: false matches a missing field only.
ActiveQuery(ad) ==
  /\ ad.isActive
  /\ (ad.startDate >= 0 /\ ad.startDate <= now) \/ ad.startDate = Unset
  /\ (ad.endDate >= 0 /\ ad.endDate >= now) \/ ad.endDate = Unset

\* { f: { $in: [target, 'all'] } } or { f: { $size: 0 } }
TargetQuery_exactOnly(targets, target) ==
  target \in targets \/ targets = {}

TargetQuery(targets, target) ==
  target \in targets \/ "all" \in targets \/ targets = {}

\* adSchema.statics.getActiveAdsByPlacement: the ids the query finds.
getActiveAdsByPlacement(placement, targetPage, targetDevice) ==
  {i \in AdIds :
     /\ ads[i] # NoDoc
     /\ ads[i].placement = placement
     /\ ActiveQuery(ads[i])
     /\ targetPage # "all" => TargetQuery(ads[i].targetPages, targetPage)
     /\ targetDevice # "all" => TargetQuery(ads[i].targetDevices, targetDevice)}

\* The in-memory country filter of getAdsByPlacement.
CountryFilter(found, targetCountry) ==
  IF targetCountry = NoParam THEN found
  ELSE {i \in found : TargetQuery(ads[i].targetCountries, targetCountry)}

\* sort({ priority: -1, createdAt: -1 }), the stable sort by priority and
\* slice(0, limit): the sets of ids the first limit places can hold, ads equal
\* in both keys being in either order.
Before(a, b) ==
  \/ ads[a].priority > ads[b].priority
  \/ ads[a].priority = ads[b].priority /\ ads[a].createdAt >= ads[b].createdAt

FirstPlaces(found, limit) ==
  {T \in SUBSET found :
     /\ Cardinality(T) = IF Cardinality(found) < limit THEN Cardinality(found) ELSE limit
     /\ \A a \in T, b \in found \ T : Before(a, b)}

AdReply(op, status, u, i) == Reply(op, status, u, i, JUndef, JUndef)

\* adSchema.methods.incrementImpressions
incrementImpressions_twice(ad) == [ad EXCEPT !.impressions = @ + 2]

incrementImpressions(ad) == [ad EXCEPT !.impressions = @ + 1]

\* adSchema.methods.incrementClicks
incrementClicks(ad) == [ad EXCEPT !.clicks = @ + 1]

createAd(u, valid, body) ==
  /\ UNCHANGED <<series, movies, users, issued, now>>
  /\ IF ~valid \/ ~BodyValid(body)
     THEN AdReply("createAd", 400, u, 0) /\ UNCHANGED ads
     ELSE \E i \in AdIds :
            /\ ads[i] = NoDoc
            /\ ads' = [ads EXCEPT ![i] = NewAd(body, u)]
            /\ AdReply("createAd", 201, u, i)

\* PUT /:id behind adValidation: findByIdAndUpdate(id, {...req.body,
\* lastModifiedBy}, { new: true, runValidators: true }).
updateAd(u, i, valid, body) ==
  /\ UNCHANGED <<series, movies, users, issued, now>>
  /\ IF ~valid \/ ~BodyValid(body)
     THEN AdReply("updateAd", 400, u, i) /\ UNCHANGED ads
     ELSE IF ads[i] = NoDoc
     THEN AdReply("updateAd", 404, u, i) /\ UNCHANGED ads
     ELSE /\ ads' = [ads EXCEPT ![i] = [ApplyPatch(@, body) EXCEPT !.lastModifiedBy = u]]
          /\ AdReply("updateAd", 200, u, i)

\* GET /placement/:placement, public.
getAdsByPlacement(placement, targetPage, targetDevice, targetCountry, limit) ==
  /\ UNCHANGED <<series, movies, users, issued, ads, now>>
  /\ \E finalAds \in FirstPlaces(CountryFilter(getActiveAdsByPlacement(placement, targetPage, targetDevice),
                                               targetCountry), limit) :
       Answer([op |-> "getAdsByPlacement", status |-> 200, user |-> Anon, id |-> 0,
                ads |-> finalAds, placement |-> placement, page |-> targetPage,
                device |-> targetDevice, country |-> targetCountry, limit |-> limit])

\* POST /bulk: updateMany and deleteMany over the ids named; updateMany runs
\* no validators.
bulkUpdateAds(u, adIds, action, data) ==
  LET Done(status) ==
        Answer([op |-> "bulkUpdateAds", status |-> status, user |-> u, id |-> 0,
                 adIds |-> adIds, action |-> action, data |-> data])
      Each(F(_)) ==
        ads' = [i \in AdIds |-> IF i \in adIds /\ ads[i] # NoDoc THEN F(ads[i]) ELSE ads[i]]
      Activate(ad) == [ad EXCEPT !.isActive = TRUE, !.lastModifiedBy = u]
      Deactivate(ad) == [ad EXCEPT !.isActive = FALSE, !.lastModifiedBy = u]
      Delete(ad) == NoDoc
      Update(ad) == [ApplyPatch(ad, data) EXCEPT !.lastModifiedBy = u]
  IN /\ UNCHANGED <<series, movies, users, issued, now>>
     /\ IF adIds = {}
        THEN Done(400) /\ UNCHANGED ads
        ELSE IF action = "activate" THEN Each(Activate) /\ Done(200)
        ELSE IF action = "deactivate" THEN Each(Deactivate) /\ Done(200)
        ELSE IF action = "delete" THEN Each(Delete) /\ Done(200)
        ELSE IF action = "update"
        THEN IF data = Null
             THEN Done(400) /\ UNCHANGED ads
             ELSE Each(Update) /\ Done(200)
        ELSE Done(400) /\ UNCHANGED ads

deleteAd(u, i) ==
  /\ UNCHANGED <<series, movies, users, issued, now>>
  /\ IF ads[i] = NoDoc
     THEN AdReply("deleteAd", 404, u, i) /\ UNCHANGED ads
     ELSE ads' = [ads EXCEPT ![i] = NoDoc] /\ AdReply("deleteAd", 200, u, i)

toggleAdStatus(u, i) ==
  /\ UNCHANGED <<series, movies, users, issued, now>>
  /\ IF ads[i] = NoDoc
     THEN AdReply("toggleAdStatus", 404, u, i) /\ UNCHANGED ads
     ELSE /\ ads' = [ads EXCEPT ![i] = [@ EXCEPT !.isActive = ~@, !.lastModifiedBy = u]]
          /\ AdReply("toggleAdStatus", 200, u, i)

\* POST /:id/impression, public.
recordImpression(i) ==
  /\ UNCHANGED <<series, movies, users, issued, now>>
  /\ IF ads[i] = NoDoc
     THEN AdReply("recordImpression", 404, Anon, i) /\ UNCHANGED ads
     ELSE /\ ads[i].impressions < MaxCount
          /\ ads' = [ads EXCEPT ![i] = incrementImpressions(@)]
          /\ AdReply("recordImpression", 200, Anon, i)

\* POST /:id/click, public.
recordClick(i) ==
  /\ UNCHANGED <<series, movies, users, issued, now>>
  /\ IF ads[i] = NoDoc
     THEN AdReply("recordClick", 404, Anon, i) /\ UNCHANGED ads
     ELSE /\ ads[i].clicks < MaxCount
          /\ ads' = [ads EXCEPT ![i] = incrementClicks(@)]
          /\ AdReply("recordClick", 200, Anon, i)

(***************************************************************************)
(* Authentication: the User model's tokens and the auth controller.        *)
(* issued is the sequence of refresh tokens handed to clients, oldest      *)
(* first; users[i].refreshToken is the one the server stores.              *)
(***************************************************************************)
MaxUsers == 2
MaxNow == 3
MaxIssued == 3
MaxTokenAge == 2

UserIds == 1..MaxUsers
Emails == {"admin@x", "user@x"}
Passwords == {"p1", "p2"}
AdminEmail == "admin@x"
AdminPassword == "p1"
Forged == [id |-> 0, iat |-> 0, forged |-> TRUE]

\* bcrypt.hash in userSchema.pre('save') and bcrypt.compare.
Hash(password) == <<"bcrypt", password>>
comparePassword(candidatePassword, user) == user.password = Hash(candidatePassword)

\* jwt.sign({ id }, REFRESH_TOKEN_SECRET, { expiresIn }): the token is a
\* function of the user id and the second it is signed in.
generateRefreshToken(i) == [id |-> i, iat |-> now]

\* jwt.verify: the signature is ours and the token has not expired.
Verified(token) == token # Forged /\ now < token.iat + MaxTokenAge

UserByEmail(email) ==
  FirstOf({i \in UserIds : users[i] # NoDoc /\ users[i].email = email})

FreeUserId == CHOOSE i \in UserIds : users[i] = NoDoc /\ \A k \in 1..(i - 1) : users[k] # NoDoc

NewUser(email, password, role) ==
  [email |-> email, password |-> Hash(password), role |-> role,
   isActive |-> TRUE, refreshToken |-> Null]

AuthReply(op, status, i, token) ==
  Answer([op |-> op, status |-> status, user |-> i, id |-> i,
           sn |-> JUndef, en |-> JUndef, token |-> token])

\* user.refreshToken = refreshToken; save; and the token goes to the client.
IssueTo(op, status, i, doc, presented) ==
  /\ Len(issued) < MaxIssued
  /\ users' = [users EXCEPT ![i] = [doc EXCEPT !.refreshToken = generateRefreshToken(i)]]
  /\ issued' = Append(issued, generateRefreshToken(i))
  /\ AuthReply(op, status, i, presented)

register(valid, email, password) ==
  /\ UNCHANGED <<series, movies, ads, now>>
  /\ IF ~valid
     THEN AuthReply("register", 400, 0, Null) /\ UNCHANGED <<users, issued>>
     ELSE IF UserByEmail(email) # 0
     THEN AuthReply("register", 409, 0, Null) /\ UNCHANGED <<users, issued>>
     ELSE /\ \E i \in UserIds : users[i] = NoDoc
          /\ IssueTo("register", 201, FreeUserId, NewUser(email, password, "user"), Null)

login(valid, email, password) ==
  LET i == UserByEmail(email)
  IN /\ UNCHANGED <<series, movies, ads, now>>
     /\ IF ~valid
        THEN AuthReply("login", 400, 0, Null) /\ UNCHANGED <<users, issued>>
        ELSE IF i = 0
        THEN AuthReply("login", 401, 0, Null) /\ UNCHANGED <<users, issued>>
        ELSE IF ~users[i].isActive
        THEN AuthReply("login", 401, i, Null) /\ UNCHANGED <<users, issued>>
        ELSE IF ~comparePassword(password, users[i])
        THEN AuthReply("login", 401, i, Null) /\ UNCHANGED <<users, issued>>
        ELSE IssueTo("login", 200, i, users[i], Null)

adminLogin(email, password, adminKeyOk) ==
  LET e == UserByEmail(email)
      i == IF e # 0 /\ users[e].role = "admin" THEN e ELSE 0
  IN /\ UNCHANGED <<series, movies, ads, now>>
     /\ IF ~adminKeyOk
        THEN AuthReply("adminLogin", 401, 0, Null) /\ UNCHANGED <<users, issued>>
        ELSE IF email = AdminEmail /\ password = AdminPassword
        THEN IF e # 0
             THEN IssueTo("adminLogin", 200, e, users[e], Null)
             ELSE /\ \E f \in UserIds : users[f] = NoDoc
                  /\ IssueTo("adminLogin", 200, FreeUserId,
                             NewUser(AdminEmail, AdminPassword, "admin"), Null)
        ELSE IF i = 0 \/ ~users[i].isActive
        THEN AuthReply("adminLogin", 401, 0, Null) /\ UNCHANGED <<users, issued>>
        ELSE IF ~comparePassword(password, users[i])
        THEN AuthReply("adminLogin", 401, i, Null) /\ UNCHANGED <<users, issued>>
        ELSE IssueTo("adminLogin", 200, i, users[i], Null)

\* !user || user.refreshToken !== refreshToken || !user.isActive
refreshTokenRejected_anyOfTheUser(i, token) ==
  \/ i \notin UserIds
  \/ users[i] = NoDoc
  \/ ~users[i].isActive

refreshTokenRejected(i, token) ==
  \/ i \notin UserIds
  \/ users[i] = NoDoc
  \/ users[i].refreshToken # token
  \/ ~users[i].isActive

\* POST /refresh with body { refreshToken }.
refreshToken(token) ==
  /\ UNCHANGED <<series, movies, ads, now>>
  /\ IF token = Null
     THEN AuthReply("refreshToken", 401, 0, token) /\ UNCHANGED <<users, issued>>
     ELSE IF ~Verified(token)
     THEN AuthReply("refreshToken", 401, 0, token) /\ UNCHANGED <<users, issued>>
     ELSE IF refreshTokenRejected(token.id, token)
     THEN AuthReply("refreshToken", 401, token.id, token) /\ UNCHANGED <<users, issued>>
     ELSE IssueTo("refreshToken", 200, token.id, users[token.id], token)

\* POST /logout by the authenticated user i.
logout_keepsToken(i) ==
  /\ UNCHANGED <<series, movies, ads, now, issued>>
  /\ users' = users
  /\ AuthReply("logout", 200, i, Null)

logout(i) ==
  /\ UNCHANGED <<series, movies, ads, now, issued>>
  /\ users' = [users EXCEPT ![i] = [@ EXCEPT !.refreshToken = Null]]
  /\ AuthReply("logout", 200, i, Null)

\* PUT /change-password by the authenticated user i.
changePassword(i, valid, currentPassword, newPassword) ==
  /\ UNCHANGED <<series, movies, ads, now, issued>>
  /\ IF ~valid
     THEN AuthReply("changePassword", 400, i, Null) /\ UNCHANGED users
     ELSE IF ~comparePassword(currentPassword, users[i])
     THEN AuthReply("changePassword", 400, i, Null) /\ UNCHANGED users
     ELSE /\ users' = [users EXCEPT ![i] =
               [@ EXCEPT !.password = Hash(newPassword), !.refreshToken = Null]]
          /\ AuthReply("changePassword", 200, i, Null)

\* A second passes.
Tick ==
  /\ now < MaxNow
  /\ now' = now + 1
  /\ Answer([op |-> "tick", status |-> 0])
  /\ UNCHANGED <<series, movies, users, issued, ads>>

(***************************************************************************)
(* utils/helpers.js: the pure helpers, each called with arguments and       *)
(* answering through resp.                                                  *)
(***************************************************************************)
MaxPage == 3
MaxTotal == 3
DefaultItemsPerPage == 12

\* parseInt(x) || fallback, for a number or nothing.
ParseIntOr(x, fallback) == IF x.t = "undef" \/ x.v = 0 THEN fallback ELSE x.v

\* Math.ceil(a / b) for a >= 0 and b # 0.
Ceil(a, b) == IF b > 0 THEN (a + b - 1) \div b ELSE 0 - (a \div (0 - b))

\* createPagination({ page, limit, total, docs })
createPagination(page, limit, total) ==
  LET currentPage == ParseIntOr(page, 1)
      itemsPerPage == ParseIntOr(limit, DefaultItemsPerPage)
      totalPages == Ceil(total, itemsPerPage)
      hasNextPage == currentPage < totalPages
      hasPrevPage == currentPage > 1
  IN [totalDocs |-> total, limit |-> itemsPerPage, totalPages |-> totalPages,
      page |-> currentPage, pagingCounter |-> (currentPage - 1) * itemsPerPage + 1,
      hasPrevPage |-> hasPrevPage, hasNextPage |-> hasNextPage,
      prevPage |-> IF hasPrevPage THEN JNum(currentPage - 1) ELSE JUndef,
      nextPage |-> IF hasNextPage THEN JNum(currentPage + 1) ELSE JUndef]

\* A call of createPagination.
callCreatePagination(page, limit, total) ==
  /\ Answer([op |-> "createPagination", status |-> 0, page |-> page, limit |-> limit,
              total |-> total, result |-> createPagination(page, limit, total)])
  /\ UNCHANGED <<series, movies, users, issued, ads, now>>

MaxTitleLen == 3

\* Characters of the titles the helper is called with: letters of both
\* cases, a digit, an accented letter, punctuation and the separators.
TitleChars == {"U", "p", "3", "É", "!", "_", " ", "-"}

\* The strings of at most n characters.
Strings(chars, n) == UNION {[1..k -> chars] : k \in 0..n}

\* A call of generateSlug.
callGenerateSlug(title, year) ==
  /\ Answer([op |-> "generateSlug", status |-> 0, title |-> title, year |-> year,
              slug |-> generateSlug(title, year)])
  /\ UNCHANGED <<series, movies, users, issued, ads, now>>

MaxTermLen == 3

\* Characters of search terms.
TermChars == {" ", "a", "x"}

\* The query {} and what it is to match a document: {} matches every
\* document, { $or: [...] } one that some alternative matches; an
\* alternative { field: { $regex: term, $options: 'i' } } over letters and
\* spaces matches a document whose field contains the term, case ignored.
EmptyQuery == [any |-> TRUE]

Contains(s, t) ==
  \E k \in 0..(Len(s) - Len(t)) : SubSeq(s, k + 1, k + Len(t)) = t

Lower(s) == [k \in 1..Len(s) |-> toLowerCase(s[k])]

QueryMatches(query, doc) ==
  \/ query = EmptyQuery
  \/ /\ "or" \in DOMAIN query
     /\ \E alt \in query.or :
          /\ alt.field \in DOMAIN doc
          /\ Contains(Lower(doc[alt.field]), Lower(alt.regex))

\* buildSearchQuery(searchTerm, fields)
buildSearchQuery_untrimmed(searchTerm, fields) ==
  IF searchTerm.t # "text" \/ Len(searchTerm.s) < 2
  THEN EmptyQuery
  ELSE LET cleanSearchTerm == Trim(searchTerm.s, {" "})
           searchFields == IF Len(fields) > 0 THEN fields ELSE <<"title", "overview">>
       IN [or |-> {[field |-> searchFields[k], regex |-> cleanSearchTerm] :
                     k \in 1..Len(searchFields)}]

buildSearchQuery(searchTerm, fields) ==
  IF searchTerm.t # "text" \/ Len(Trim(searchTerm.s, {" "})) < 2
  THEN EmptyQuery
  ELSE LET cleanSearchTerm == Trim(searchTerm.s, {" "})
           searchFields == IF Len(fields) > 0 THEN fields ELSE <<"title", "overview">>
       IN [or |-> {[field |-> searchFields[k], regex |-> cleanSearchTerm] :
                     k \in 1..Len(searchFields)}]

\* A call of buildSearchQuery.
callBuildSearchQuery(searchTerm, fields) ==
  /\ Answer([op |-> "buildSearchQuery", status |-> 0, searchTerm |-> searchTerm,
              fields |-> fields, result |-> buildSearchQuery(searchTerm, fields)])
  /\ UNCHANGED <<series, movies, users, issued, ads, now>>

\* JavaScript truthiness, and value.toString().trim() !== ''.
Truthy(j) ==
  CASE j.t = "undef" -> FALSE
    [] j.t = "num" -> j.v # 0
    [] j.t = "str" -> TRUE
    [] j.t = "text" -> j.s # <<>>
    [] j.t = "bool" -> j.b

NonBlank(j) == j.t = "text" => Trim(j.s, {" "}) # <<>>

\* value.split(',').map(g => g.trim()).filter(g => g), as a set.
RECURSIVE SplitTrim(_, _)
SplitTrim(s, piece) ==
  LET done == IF Trim(piece, {" "}) = <<>> THEN {} ELSE {Trim(piece, {" "})}
  IN IF s = <<>> THEN done
     ELSE IF Head(s) = "," THEN done \cup SplitTrim(Tail(s), <<>>)
     ELSE SplitTrim(Tail(s), Append(piece, Head(s)))

\* The keys buildFilterQuery keeps, for values that are strings, numbers,
\* booleans or nothing.
KeptKey(key, value) ==
  /\ Truthy(value)
  /\ NonBlank(value)
  /\ key = "genres" => value.t = "text" /\ SplitTrim(value.s, <<>>) # {}
  /\ key = "language" => value.t = "text"
  /\ key \in {"releaseYear", "rating"} => value.t \in {"num", "str"}

\* buildFilterQuery(filters): the constraint of each kept key.
buildFilterQuery(filters) ==
  [key \in {k \in DOMAIN filters : KeptKey(k, filters[k])} |->
     CASE key = "genres" -> [in |-> SplitTrim(filters[key].s, <<>>)]
       [] key = "language" -> [in |-> {filters[key].s}]
       [] key = "releaseYear" -> [eq |-> JNum(filters[key].v)]
       [] key = "rating" -> [gte |-> filters[key].v]
       [] OTHER -> [eq |-> filters[key]]]

\* Stored strings as request text.
TextOf(stored) ==
  CASE stored = "Header" -> <<"H", "e", "a", "d", "e", "r">>
    [] stored = "Footer" -> <<"F", "o", "o", "t", "e", "r">>
    [] OTHER -> <<>>

TrueText == <<"t", "r", "u", "e">>
FalseText == <<"f", "a", "l", "s", "e">>

\* A stored document satisfies the equality constraints of a query; a
\* document without the field does not.
Satisfies(doc, query) ==
  \A key \in DOMAIN query :
    /\ key \in DOMAIN doc
    /\ "eq" \in DOMAIN query[key]
    /\ IF query[key].eq.t = "bool" THEN doc[key] = query[key].eq.b
       ELSE query[key].eq.t = "text" /\ TextOf(doc[key]) = query[key].eq.s

\* GET /api/ads, admin: the listing filtered by type, placement, isActive and
\* network; MaxAds documents fit the first page.
getAllAds(u, type, placement, isActive, network) ==
  LET filters == [type |-> type, placement |-> placement,
                  isActive |-> IF isActive.t = "text" /\ isActive.s = TrueText THEN JBool(TRUE)
                               ELSE IF isActive.t = "text" /\ isActive.s = FalseText
                               THEN JBool(FALSE)
                               ELSE JUndef,
                  network |-> network]
      query == buildFilterQuery(filters)
  IN /\ Answer([op |-> "getAllAds", status |-> 200, user |-> u, id |-> 0,
                 isActive |-> isActive, filters |-> filters, query |-> query,
                 items |-> {i \in AdIds : ads[i] # NoDoc /\ Satisfies(ads[i], query)}])
     /\ UNCHANGED <<series, movies, users, issued, ads, now>>

(***************************************************************************)
(* Interleaved handlers.  An async handler yields at every await: between  *)
(* the findById/findOne that loads a document and the save() that writes   *)
(* it back, another request's handler can run.  Each handler below is the  *)
(* code of the handler of the same name, cut at that await.                *)
(***************************************************************************)
\* Handler p has loaded doc and stands before its save.
Loaded(op, u, i, doc) ==
  [op |-> op, pc |-> "save", user |-> u, id |-> i, read |-> doc, status |-> 0]

\* Handler p has answered without loading a document.
Refused(op, u, i, status) ==
  [op |-> op, pc |-> "done", user |-> u, id |-> i, read |-> NoDoc, status |-> status]

\* Handler p has answered after its save.
Completed(f, status) == [f EXCEPT !.pc = "done", !.status = status]

Free(p) == flight[p].pc # "save"

\* The answer goes to the client and is the handler's last step.
Finish(p, f) ==
  /\ flight' = [flight EXCEPT ![p] = f]
  /\ resp' = [op |-> f.op, status |-> f.status, user |-> f.user, id |-> f.id,
              sn |-> JUndef, en |-> JUndef]

\* this.<field> += 1; this.save(): the document in memory holds the value
\* that was loaded, and save() sends $set of the incremented value.
saveCounter_inc(stored, read, field) == [stored EXCEPT ![field] = @ + 1]

saveCounter(stored, read, field) == [stored EXCEPT ![field] = read[field] + 1]

\* const ad = await Ad.findById(id); if (!ad) 404
recordImpressionFind(p, i) ==
  /\ Free(p)
  /\ UNCHANGED <<series, movies, users, issued, ads, now>>
  /\ IF ads[i] = NoDoc
     THEN Finish(p, Refused("recordImpression", Anon, i, 404))
     ELSE /\ ads[i].impressions < MaxCount
          /\ flight' = [flight EXCEPT ![p] = Loaded("recordImpression", Anon, i, ads[i])]
          /\ UNCHANGED resp

\* await ad.incrementImpressions(); res.json(...)
recordImpressionSave(p) ==
  LET f == flight[p]
  IN /\ f.pc = "save" /\ f.op = "recordImpression"
     /\ UNCHANGED <<series, movies, users, issued, now>>
     /\ IF ads[f.id] = NoDoc
        THEN Finish(p, Completed(f, 500)) /\ UNCHANGED ads
        ELSE /\ ads' = [ads EXCEPT ![f.id] = saveCounter(@, f.read, "impressions")]
             /\ Finish(p, Completed(f, 200))

recordClickFind(p, i) ==
  /\ Free(p)
  /\ UNCHANGED <<series, movies, users, issued, ads, now>>
  /\ IF ads[i] = NoDoc
     THEN Finish(p, Refused("recordClick", Anon, i, 404))
     ELSE /\ ads[i].clicks < MaxCount
          /\ flight' = [flight EXCEPT ![p] = Loaded("recordClick", Anon, i, ads[i])]
          /\ UNCHANGED resp

recordClickSave(p) ==
  LET f == flight[p]
  IN /\ f.pc = "save" /\ f.op = "recordClick"
     /\ UNCHANGED <<series, movies, users, issued, now>>
     /\ IF ads[f.id] = NoDoc
        THEN Finish(p, Completed(f, 500)) /\ UNCHANGED ads
        ELSE /\ ads' = [ads EXCEPT ![f.id] = saveCounter(@, f.read, "clicks")]
             /\ Finish(p, Completed(f, 200))

\* const movie = await Movie.findOne(query)...; if (!movie) 404
getMovieFind(p, u, i) ==
  LET doc == movies[i]
  IN /\ Free(p)
     /\ UNCHANGED <<series, movies, users, issued, ads, now>>
     /\ IF doc = NoDoc \/ (Role(u) # "admin" /\ doc.adminStatus # "Published")
        THEN Finish(p, Refused("getMovie", u, i, 404))
        ELSE /\ doc.views < MaxViews
             /\ flight' = [flight EXCEPT ![p] = Loaded("getMovie", u, i, doc)]
             /\ UNCHANGED resp

\* movie.views += 1; await movie.save({ validateBeforeSave: false }); res.json
getMovieSave(p) ==
  LET f == flight[p]
  IN /\ f.pc = "save" /\ f.op = "getMovie"
     /\ UNCHANGED <<series, users, issued, ads, now>>
     /\ IF movies[f.id] = NoDoc
        THEN Finish(p, Completed(f, 500)) /\ UNCHANGED movies
        ELSE /\ movies' = [movies EXCEPT ![f.id] =
                  moviePreSave(saveCounter(@, f.read, "views"), FALSE, FALSE)]
             /\ Finish(p, Completed(f, 200))

\* save() of a loaded document writes the paths that changed in memory
\* since the load ($set) and leaves every other stored path as it is; the
\* seasons array is written by its own operator.
savePaths(stored, read, mem) ==
  [f \in DOMAIN stored |->
     IF f # "seasons" /\ mem[f] # read[f] THEN mem[f] ELSE stored[f]]

\* findById, the 404 and 403 answers, the duplicate test on the loaded
\* document, and the push onto the array in memory.
addSeasonFind(p, u, i, seasonNumber) ==
  LET doc == series[i]
  IN /\ Free(p)
     /\ UNCHANGED <<series, movies, users, issued, ads, now>>
     /\ IF doc = NoDoc
        THEN Finish(p, Refused("addSeason", u, i, 404))
        ELSE IF AccessDenied(u, doc)
        THEN Finish(p, Refused("addSeason", u, i, 403))
        ELSE IF FindSeasonStrict(doc.seasons, seasonNumber) # 0
        THEN Finish(p, Refused("addSeason", u, i, 409))
        ELSE IF seasonNumber.t = "undef"
        THEN Finish(p, Refused("addSeason", u, i, 500))
        ELSE /\ flight' = [flight EXCEPT ![p] =
                  [op |-> "addSeason", pc |-> "save", user |-> u, id |-> i,
                   read |-> doc, status |-> 0, sn |-> CastNumber(seasonNumber)]]
             /\ UNCHANGED resp

\* await series.save(): $push of the new season onto the stored array (the
\* version is incremented and not tested), $set of lastModifiedBy and of the
\* counts the pre-save hook derived from the array in memory.
addSeasonSave(p) ==
  LET f == flight[p]
      pushed == Season(f.sn, <<>>)
      mem == seriesPreSave([f.read EXCEPT !.seasons = Append(@, pushed),
                                          !.lastModifiedBy = f.user], FALSE, FALSE)
  IN /\ f.pc = "save" /\ f.op = "addSeason"
     /\ UNCHANGED <<movies, users, issued, ads, now>>
     /\ IF series[f.id] = NoDoc
        THEN Finish(p, Completed(f, 500)) /\ UNCHANGED series
        ELSE /\ Len(series[f.id].seasons) < MaxSeasons
             /\ series' = [series EXCEPT ![f.id] =
                  [savePaths(@, f.read, mem) EXCEPT !.seasons = Append(@, pushed)]]
             /\ Finish(p, Completed(f, 201))

\* The 401 answers, jwt.verify, User.findById, the comparison with the stored
\* token, and the new token, signed before the save.
refreshTokenFind(p, token) ==
  LET i == token.id
      refused(who) ==
        /\ flight' = [flight EXCEPT ![p] =
             [op |-> "refreshToken", pc |-> "done", user |-> who, id |-> who,
              read |-> NoDoc, status |-> 401, token |-> token, newToken |-> Null]]
        /\ resp' = [op |-> "refreshToken", status |-> 401, user |-> who, id |-> who,
                    sn |-> JUndef, en |-> JUndef, token |-> token]
  IN /\ Free(p)
     /\ UNCHANGED <<series, movies, users, issued, ads, now>>
     /\ IF token = Null
        THEN refused(0)
        ELSE IF ~Verified(token)
        THEN refused(0)
        ELSE IF refreshTokenRejected(i, token)
        THEN refused(i)
        ELSE /\ flight' = [flight EXCEPT ![p] =
                  [op |-> "refreshToken", pc |-> "save", user |-> i, id |-> i,
                   read |-> users[i], status |-> 0, token |-> token,
                   newToken |-> generateRefreshToken(i)]]
             /\ UNCHANGED resp

\* await user.save({ validateBeforeSave: false }): $set of refreshToken; then
\* the new token goes to the client.
refreshTokenSave(p) ==
  LET f == flight[p]
      answer(status) ==
        /\ flight' = [flight EXCEPT ![p] = Completed(f, status)]
        /\ resp' = [op |-> "refreshToken", status |-> status, user |-> f.id,
                    id |-> f.id, sn |-> JUndef, en |-> JUndef, token |-> f.token]
  IN /\ f.pc = "save" /\ f.op = "refreshToken"
     /\ UNCHANGED <<series, movies, ads, now>>
     /\ IF users[f.id] = NoDoc
        THEN answer(401) /\ UNCHANGED <<users, issued>>
        ELSE /\ Len(issued) < MaxIssued
             /\ users' = [users EXCEPT ![f.id] = [@ EXCEPT !.refreshToken = f.newToken]]
             /\ issued' = Append(issued, f.newToken)
             /\ answer(200)

(***************************************************************************)
(* Initial state: empty collections.                                       *)
(***************************************************************************)
Init ==
  /\ series = [i \in SeriesIds |-> NoDoc]
  /\ movies = [i \in MovieIds |-> NoDoc]
  /\ users = [i \in UserIds |-> NoDoc]
  /\ issued = <<>>
  /\ ads = [i \in AdIds |-> NoDoc]
  /\ now = 0
  /\ resp = NoResp
  /\ flight = [p \in Procs |-> Idle]

\* Series created through the API and extended by addSeason and addEpisode.
NextSeasons ==
  \/ \E u \in {"mod1", "mod2"}, valid \in BOOLEAN :
       createSeries(u, valid, TheMatrix, 1999, "Draft", <<>>, 1, [rating |-> 0])
  \/ \E u \in Principals, i \in SeriesIds, j \in JsonNumbers(SeasonNos) :
       addSeason(u, i, j)
  \/ \E u \in Principals, i \in SeriesIds, p \in SeasonNos, j \in JsonNumbers(0..MaxEpisodeNo) :
       addEpisode(u, i, p, j)

SpecSeasons == Init /\ [][NextSeasons]_vars

\* Every write path of the Series collection.
Next ==
  \/ \E valid \in BOOLEAN, seasons \in {<<>>, <<Season(1, <<Episode(1)>>)>>}, nSeasons \in {0, 1} :
       createSeries("mod1", valid, TheMatrix, 1999, "Draft", seasons, nSeasons, [rating |-> 0])
  \/ \E u \in {"mod1", "mod2"}, i \in SeriesIds : addSeason(u, i, JNum(1))
  \/ \E i \in SeriesIds, j \in {JNum(1), JNum(2)} : addEpisode("mod1", i, 1, j)
  \/ \E u \in {"admin", Anon}, i \in SeriesIds : getSeries(u, i)
  \/ \E i \in SeriesIds : getEpisode(i, 1, 1)
  \/ \E i \in SeriesIds, j \in {JUndef, JNum(2)} : updateEpisode("mod1", i, 1, 1, j)
  \/ \E i \in SeriesIds, serverValid \in BOOLEAN :
       addServerToEpisode("mod1", i, 1, 1, serverValid)
  \/ \E i \in SeriesIds, a \in {"Published", "Draft"} : updateSeriesStatus("admin", i, a)
  \/ \E tmdbId \in TmdbIds, forceUpdate \in BOOLEAN, updateSeasons \in BOOLEAN,
        withSeasons \in BOOLEAN :
       importSeries(tmdbId, "admin", forceUpdate, updateSeasons, withSeasons)

Spec == Init /\ [][Next]_vars

\* The ad endpoints.
NextAds ==
  \/ \E valid \in BOOLEAN, impressions \in {0, 1}, clicks \in {0, 1} :
       createAd("admin", valid,
                [placement |-> "Header", impressions |-> impressions, clicks |-> clicks])
  \/ \E i \in AdIds : deleteAd("admin", i)
  \/ \E i \in AdIds : toggleAdStatus("admin", i)
  \/ \E i \in AdIds : recordImpression(i)
  \/ \E i \in AdIds : recordClick(i)

SpecAds == Init /\ [][NextAds]_vars

\* Two handlers at a time on the counters: ad impressions and clicks, movie
\* views.
NextRace ==
  \/ /\ ads[1] = NoDoc
     /\ createAd("admin", TRUE, [placement |-> "Header", impressions |-> 0, clicks |-> 0])
  \/ /\ movies[1] = NoDoc
     /\ createMovie("mod1", TRUE, TheMatrix, 1999, "Published", [rating |-> 0])
  \/ \E p \in Procs : recordImpressionFind(p, 1)
  \/ \E p \in Procs : recordImpressionSave(p)
  \/ \E p \in Procs : recordClickFind(p, 1)
  \/ \E p \in Procs : recordClickSave(p)
  \/ \E p \in Procs : getMovieFind(p, Anon, 1)
  \/ \E p \in Procs : getMovieSave(p)

SpecRace == Init /\ [][NextRace]_vars

\* Two addSeason handlers at a time, the season number sent as a number.
NextSeasonRace ==
  \/ /\ series[1] = NoDoc
     /\ createSeries("mod1", TRUE, TheMatrix, 1999, "Draft", <<>>, 1, [rating |-> 0])
  \/ \E u \in {"mod1", "mod2", "admin"}, i \in SeriesIds, n \in SeasonNos :
       addSeason(u, i, JNum(n))
  \/ \E p \in Procs, u \in {"mod1", "mod2", "admin"}, i \in SeriesIds, n \in SeasonNos :
       addSeasonFind(p, u, i, JNum(n))
  \/ \E p \in Procs : addSeasonSave(p)

SpecSeasonRace == Init /\ [][NextSeasonRace]_vars

\* importSeasons on stored series.
NextImportSeasons ==
  \/ \E year \in Years, status \in {"Draft", "Published"},
        seasons \in {<<>>, <<Season(0, <<>>)>>, <<Season(1, <<>>)>>,
                     <<Season(2, <<Episode(1)>>)>>} :
       createSeries("mod1", TRUE, TheMatrix, year, status, seasons, 1, [rating |-> 0])
  \/ \E i \in SeriesIds, tmdbSeasons \in TmdbSeasonLists, answers \in TmdbSeasonAnswers,
        invalid \in SUBSET (1..MaxTmdbSeason) :
       importSeasonsOf(i, tmdbSeasons, answers, invalid, "mod1")

SpecImportSeasons == Init /\ [][NextImportSeasons]_vars

\* Episodes of one season, numbers sent as JSON numbers.
NextEpisodes ==
  \/ \E year \in Years, seasons \in {<<Season(1, <<>>)>>, <<Season(1, <<Episode(1)>>)>>} :
       createSeries("mod1", TRUE, TheMatrix, year, "Draft", seasons, 1, [rating |-> 0])
  \/ \E u \in {"mod1", "mod2", "admin"}, i \in SeriesIds, p \in SeasonNos, e \in EpisodeNos :
       addEpisode(u, i, p, JNum(e))
  \/ \E u \in {"mod1", "mod2", "admin"}, i \in SeriesIds, p \in SeasonNos, e \in EpisodeNos,
        j \in {JUndef} \cup {JNum(n) : n \in 0..MaxEpisodeNo} :
       updateEpisode(u, i, p, e, j)

SpecEpisodes == Init /\ [][NextEpisodes]_vars

\* The single-item read endpoints, on content of either status.
NextRead ==
  \/ \E status \in {"Draft", "Published"}, seasons \in {<<>>, <<Season(1, <<Episode(1)>>)>>} :
       createSeries("mod1", TRUE, TheMatrix, 1999, status, seasons, 1, [rating |-> 0])
  \/ \E status \in {"Draft", "Published"} :
       createMovie("mod1", TRUE, TheMatrix, 1999, status, [rating |-> 0])
  \/ \E i \in SeriesIds, a \in {"Published", "Draft", "Archived"} :
       updateSeriesStatus("admin", i, a)
  \/ \E i \in MovieIds, a \in {"Published", "Draft", "Archived"} :
       updateMovieStatus("admin", i, a)
  \/ \E u \in {"admin", "mod1", Anon}, i \in MovieIds : getMovie(u, i)
  \/ \E u \in {"admin", "mod1", Anon}, i \in SeriesIds : getSeries(u, i)
  \/ \E i \in SeriesIds, p \in SeasonNos, e \in EpisodeNos : getEpisode(i, p, e)

SpecRead == Init /\ [][NextRead]_vars

\* The routes that write content, as the moderators and admins they admit
\* can call them, with bodies that name an adminStatus.
NextStatus ==
  \/ \E u \in {"mod1", "admin"}, title \in {TheMatrix, UpBang}, status \in {"Draft", "Published"} :
       createMovie(u, TRUE, title, 1999, status, [rating |-> 0])
  \/ \E u \in {"mod1", "mod2", "admin"}, i \in MovieIds, valid \in BOOLEAN,
        body \in {[title |-> TheMatrix], [adminStatus |-> "Published"],
                  [adminStatus |-> "Archived"]} :
       updateMovie(u, i, valid, TheMatrix, 1999, body)
  \/ \E u \in {"mod1", "admin"}, status \in {"Draft", "Published"} :
       createSeries(u, TRUE, TheMatrix, 1999, status, <<>>, 1, [rating |-> 0])
  \/ \E i \in MovieIds, a \in {"Published", "Draft"} : updateMovieStatus("admin", i, a)
  \/ \E i \in SeriesIds, a \in {"Published", "Draft"} : updateSeriesStatus("admin", i, a)

SpecStatus == Init /\ [][NextStatus]_vars

\* Tokens a client can present: the ones it was handed, a forged one, none.
Presentable == {issued[k] : k \in 1..Len(issued)} \cup {Forged, Null}

\* Two refresh handlers at a time.
NextTokenRace ==
  \/ \E valid \in BOOLEAN, password \in Passwords : register(valid, "user@x", password)
  \/ \E valid \in BOOLEAN, password \in Passwords : login(valid, "user@x", password)
  \/ \E token \in Presentable : refreshToken(token)
  \/ \E p \in Procs, token \in Presentable : refreshTokenFind(p, token)
  \/ \E p \in Procs : refreshTokenSave(p)
  \/ \E i \in UserIds : users[i] # NoDoc /\ logout(i)
  \/ Tick

SpecTokenRace == Init /\ [][NextTokenRace]_vars

\* The authentication endpoints and the clock.
NextAuth ==
  \/ \E valid \in BOOLEAN, password \in Passwords : register(valid, "user@x", password)
  \/ \E valid \in BOOLEAN, email \in Emails, password \in Passwords :
       login(valid, email, password)
  \/ \E email \in Emails, password \in Passwords, adminKeyOk \in BOOLEAN :
       adminLogin(email, password, adminKeyOk)
  \/ \E token \in Presentable : refreshToken(token)
  \/ \E i \in UserIds : users[i] # NoDoc /\ logout(i)
  \/ \E i \in UserIds, valid \in BOOLEAN, currentPassword \in Passwords, newPassword \in Passwords :
       users[i] # NoDoc /\ changePassword(i, valid, currentPassword, newPassword)
  \/ Tick

SpecAuth == Init /\ [][NextAuth]_vars

\* The movie write paths.
NextMovies ==
  \/ \E valid \in BOOLEAN, title \in {TheMatrix, UpBang} :
       createMovie("mod1", valid, title, 1999, "Draft", [rating |-> 0])
  \/ getMovie("admin", 1)
  \/ \E u \in {"mod1", "mod2"}, i \in MovieIds, valid \in BOOLEAN, title \in {TheMatrix, UpBang} :
       updateMovie(u, i, valid, title, 1999, [title |-> title])
  \/ \E i \in MovieIds : deleteMovie("mod1", i)
  \/ \E serverValid \in BOOLEAN : addServerToMovie("mod1", 1, serverValid)
  \/ \E serverId \in ServerIds : removeServerFromMovie("mod1", 1, serverId)
  \/ \E tmdbId \in TmdbIds, forceUpdate \in BOOLEAN : importMovie(tmdbId, "mod1", forceUpdate)

SpecMovies == Init /\ [][NextMovies]_vars

\* The handlers that test ownership, called by the owner, by another
\* moderator and by an admin.
NextOwner ==
  \/ \E u \in {"mod1", "mod2"} : createMovie(u, TRUE, TheMatrix, 1999, "Draft", [rating |-> 0])
  \/ createSeries("mod1", TRUE, TheMatrix, 1999, "Draft", <<Season(1, <<Episode(1)>>)>>, 1, [rating |-> 0])
  \/ \E u \in Principals, i \in MovieIds, valid \in BOOLEAN :
       updateMovie(u, i, valid, UpBang, 1999, [title |-> UpBang])
  \/ \E u \in Principals, i \in MovieIds : deleteMovie(u, i)
  \/ \E u \in Principals, i \in MovieIds, serverValid \in BOOLEAN :
       addServerToMovie(u, i, serverValid)
  \/ \E u \in Principals, i \in MovieIds, serverId \in ServerIds :
       removeServerFromMovie(u, i, serverId)
  \/ \E u \in Principals, i \in SeriesIds : addSeason(u, i, JNum(0))
  \/ \E u \in Principals, i \in SeriesIds : addEpisode(u, i, 1, JNum(2))
  \/ \E u \in Principals, i \in SeriesIds, j \in {JUndef, JNum(2)} :
       updateEpisode(u, i, 1, 1, j)
  \/ \E u \in Principals, i \in SeriesIds, serverValid \in BOOLEAN :
       addServerToEpisode(u, i, 1, 1, serverValid)

SpecOwner == Init /\ [][NextOwner]_vars

Callers == {"admin", "mod1", Anon}
StatusParams == {NoParam, "Draft"}
Matchings == {MovieIds, {1}}

\* The list endpoints over movies and series of either status.
NextList ==
  \/ \E title \in {TheMatrix, UpBang}, a \in {"Draft", "Published"} :
       createMovie("mod1", TRUE, title, 1999, a, [rating |-> 0])
  \/ \E a \in {"Draft", "Published"} :
       createSeries("mod1", TRUE, TheMatrix, 1999, a, <<>>, 1, [rating |-> 0])
  \/ \E i \in MovieIds, a \in {"Published", "Draft"} : updateMovieStatus("admin", i, a)
  \/ \E i \in SeriesIds, a \in {"Published", "Draft"} : updateSeriesStatus("admin", i, a)
  \/ \E u \in Callers, a \in StatusParams, m \in Matchings : getMovies(u, a, m)
  \/ \E u \in Callers, a \in StatusParams : getAllSeries(u, a, SeriesIds)
  \/ \E u \in Callers, a \in StatusParams, m \in Matchings : getContent(u, a, "all", "newest", m, SeriesIds)
  \/ \E u \in Callers, a \in StatusParams, qOk \in BOOLEAN :
       search(u, a, qOk, MovieIds, SeriesIds)
  \/ \E u \in Callers, a \in StatusParams : getFeaturedContent(u, a, MovieIds, SeriesIds)
  \/ \E u \in Callers, a \in StatusParams : getTrendingContent(u, a, MovieIds, SeriesIds)
  \/ \E u \in Callers, a \in StatusParams : getLatestContent(u, a, MovieIds, SeriesIds)
  \/ \E u \in Callers, a \in StatusParams : getContentByGenre(u, a, MovieIds, SeriesIds)
  \/ \E u \in Callers, a \in StatusParams, contentType \in {NoParam, "Movie", "Series"},
        contentId \in 0..MaxMovies :
       getRecommendedContent(u, a, contentType, contentId, 8)

SpecList == Init /\ [][NextList]_vars

\* Create and delete requests over titles that share slugs.
NextCreate ==
  \/ \E valid \in BOOLEAN, title \in {TheMatrix, UpBang, Up}, year \in Years :
       createMovie("mod1", valid, title, year, "Draft", [rating |-> 0])
  \/ \E valid \in BOOLEAN, title \in {TheMatrix, UpBang, Up}, year \in Years,
        nSeasons \in {0, 1} :
       createSeries("mod1", valid, title, year, "Draft", <<>>, nSeasons, [rating |-> 0])
  \/ \E i \in MovieIds : deleteMovie("admin", i)

SpecCreate == Init /\ [][NextCreate]_vars

\* The TMDB imports, next to documents created by hand.
NextImport ==
  \/ createMovie("mod1", TRUE, TheMatrix, 1999, "Draft", [rating |-> 0])
  \/ \E tmdbId \in TmdbIds, forceUpdate \in BOOLEAN :
       importMovie(tmdbId, "admin", forceUpdate)
  \/ \E tmdbId \in TmdbIds, forceUpdate \in BOOLEAN, withSeasons \in BOOLEAN :
       importSeries(tmdbId, "admin", forceUpdate, FALSE, withSeasons)
  \/ \E i \in MovieIds : deleteMovie("admin", i)

SpecImport == Init /\ [][NextImport]_vars

\* The clock of the ad specifications stops here.
MaxAdClock == 1

\* Request bodies of createAd and updateAd; the last fails adValidation.
AdBodies ==
  {[placement |-> "Header", targetPages |-> {"detail"}, priority |-> 2],
   [placement |-> "Header", targetPages |-> {"all"}, targetDevices |-> {"mobile"}],
   [placement |-> "Header", targetPages |-> {"homepage"}, targetCountries |-> {"BD"},
    endDate |-> 0],
   [placement |-> "Footer", targetDevices |-> {"all"}, startDate |-> 1],
   [placement |-> "Header", priority |-> 11]}

\* Ads written through the validated endpoints and served by placement.
NextTargeting ==
  \/ \E body \in AdBodies : createAd("admin", TRUE, body)
  \/ \E i \in AdIds, body \in {[placement |-> "Header", targetDevices |-> {"desktop"}],
                               [placement |-> "Footer", priority |-> 0]} :
       updateAd("admin", i, TRUE, body)
  \/ \E i \in AdIds : toggleAdStatus("admin", i)
  \/ \E placement \in Placements, targetPage \in {"all", "homepage"},
        targetDevice \in {"all", "mobile"}, targetCountry \in {NoParam, "BD"},
        limit \in {1, DefaultLimit} :
       getAdsByPlacement(placement, targetPage, targetDevice, targetCountry, limit)
  \/ now < MaxAdClock /\ Tick

SpecTargeting == Init /\ [][NextTargeting]_vars

\* The data of a bulk update: none, a cleared end date, priorities.
BulkData == {Null, [endDate |-> NullDate], [priority |-> 11], [priority |-> 5]}

\* The ad administration endpoints, the bulk endpoint among them.
NextAdAdmin ==
  \/ \E valid \in BOOLEAN, body \in {[placement |-> "Header"],
                                     [placement |-> "Header", endDate |-> 0],
                                     [placement |-> "Header", priority |-> 11]} :
       createAd("admin", valid, body)
  \/ \E i \in AdIds, body \in {[placement |-> "Header", priority |-> 10],
                               [placement |-> "Footer", priority |-> 0]} :
       updateAd("admin", i, TRUE, body)
  \/ \E i \in AdIds : toggleAdStatus("admin", i)
  \/ \E adIds \in {{}, {1}, AdIds},
        action \in {"activate", "deactivate", "delete", "update", "archive"},
        data \in BulkData :
       bulkUpdateAds("admin", adIds, action, data)
  \/ \E placement \in Placements, limit \in {1, DefaultLimit} :
       getAdsByPlacement(placement, "all", "all", NoParam, limit)
  \/ now < MaxAdClock /\ Tick

SpecAdAdmin == Init /\ [][NextAdAdmin]_vars

\* What a create request says of genres, language and rating.
ContentBodies ==
  {[rating |-> 3, genres |-> {"Action"}],
   [rating |-> 7, language |-> {"English"}],
   [rating |-> 7, genres |-> {"Action"}, language |-> {"English"}]}

\* Content of several ratings, and the recommendations for it.
NextRecommend ==
  \/ \E title \in {TheMatrix, UpDashUp}, a \in {"Draft", "Published"}, body \in ContentBodies :
       createMovie("mod1", TRUE, title, 1999, a, body)
  \/ \E year \in Years, a \in {"Draft", "Published"},
        body \in {[rating |-> 3, genres |-> {"Action"}], [rating |-> 9, language |-> {"English"}]} :
       createSeries("mod1", TRUE, TheMatrix, year, a, <<>>, 1, body)
  \/ \E i \in MovieIds : deleteMovie("admin", i)
  \/ \E contentType \in {NoParam, "Movie", "Series"}, contentId \in 0..MaxMovies,
        limit \in {1, 2, 3, 8} :
       getRecommendedContent(Anon, NoParam, contentType, contentId, limit)

SpecRecommend == Init /\ [][NextRecommend]_vars

\* Calls of the helpers.
NextHelpers ==
  \/ \E page \in {JUndef} \cup {JNum(n) : n \in 0..MaxPage},
        limit \in {JUndef} \cup {JNum(n) : n \in 0..MaxPage},
        total \in 0..MaxTotal :
       callCreatePagination(page, limit, total)
  \/ \E title \in Strings(TitleChars, MaxTitleLen), year \in {0, 1999} :
       callGenerateSlug(title, year)
  \/ \E searchTerm \in {JUndef, JNum(5)} \cup {JText(t) : t \in Strings(TermChars, MaxTermLen)},
        fields \in {<<>>, <<"title">>, <<"title", "cast.name">>} :
       callBuildSearchQuery(searchTerm, fields)

SpecHelpers == Init /\ [][NextHelpers]_vars

\* Ads of both placements and states, and the filtered admin listing.
NextFilter ==
  \/ \E placement \in Placements : createAd("admin", TRUE, [placement |-> placement])
  \/ \E i \in AdIds : toggleAdStatus("admin", i)
  \/ \E i \in AdIds : deleteAd("admin", i)
  \/ \E placement \in {JUndef, JText(<<" ">>), JText(TextOf("Header"))},
        isActive \in {JUndef, JText(<<>>), JText(TrueText), JText(FalseText)} :
       getAllAds("admin", JUndef, placement, isActive, JUndef)

SpecFilter == Init /\ [][NextFilter]_vars

\* What a create request says of the fields content is sorted by.
SortBodies ==
  {[views |-> 0], [views |-> 1, rating |-> 0], [views |-> 0, rating |-> 5, imdbRating |-> 7]}

\* Published content created at different times, and the content listing
\* under each sort key.
NextSort ==
  \/ \E title \in {TheMatrix, UpDashUp}, body \in SortBodies :
       createMovie("mod1", TRUE, title, 1999, "Published", body)
  \/ \E body \in {[views |-> 0, rating |-> 5], [views |-> 1, rating |-> 0, imdbRating |-> 9]} :
       createSeries("mod1", TRUE, TheMatrix, 2003, "Published", <<>>, 1, body)
  \/ \E type \in {"all", "movie", "series"},
        sortBy \in {"newest", "oldest", "rating", "views", "year", "trending", "releaseYear"} :
       getContent(Anon, NoParam, type, sortBy, MovieIds, SeriesIds)
  \/ now < MaxAdClock /\ Tick

SpecSort == Init /\ [][NextSort]_vars

\* Series with and without seasons, and the model's addEpisode method.
NextMethod ==
  \/ \E seasons \in {<<>>, <<Season(1, <<>>)>>, <<Season(1, <<Episode(1)>>)>>},
        year \in Years, a \in {"Draft", "Published"} :
       createSeries("mod1", TRUE, TheMatrix, year, a, seasons, 1, [rating |-> 0])
  \/ \E i \in SeriesIds, seasonNumber \in 0..(MaxSeasonNo + 1), episodeNumber \in EpisodeNos :
       methodAddEpisode(i, seasonNumber, episodeNumber)

SpecMethod == Init /\ [][NextMethod]_vars

(***************************************************************************)
(* Properties of the Series aggregate.                                     *)
(***************************************************************************)
EpisodeSlots(doc) ==
  {<<k, l>> \in (1..Len(doc.seasons)) \X (1..MaxEpisodes + 1) :
     l <= Len(doc.seasons[k].episodes)}

CountsMatch(doc) ==
  /\ doc.numberOfEpisodes = Cardinality(EpisodeSlots(doc))
  /\ doc.numberOfSeasons = Len(doc.seasons)

HasSeason(doc, n) == \E k \in 1..Len(doc.seasons) : doc.seasons[k].seasonNumber = n

\* C1: after any sequence of addSeason and addEpisode requests, accepted or
\* rejected, every stored series has numberOfEpisodes equal to the number of
\* episodes in its seasons and numberOfSeasons equal to its number of seasons.
C1_CountsAfterAddSeasonAddEpisode ==
  \A i \in SeriesIds : series[i] # NoDoc => CountsMatch(series[i])

C1_Witness ==
  \E i \in SeriesIds :
    /\ series[i] # NoDoc
    /\ resp.op = "addEpisode" /\ resp.status = 201 /\ resp.id = i
    /\ series[i].numberOfSeasons = 2
    /\ series[i].numberOfEpisodes = 2

\* C2: addSeason for a seasonNumber the series already contains is answered
\* 409 and leaves the stored series unchanged.
C2_DuplicateSeasonRejected ==
  [][\A i \in SeriesIds :
       ( /\ resp'.op = "addSeason" /\ resp'.id = i
         /\ series[i] # NoDoc
         /\ ~AccessDenied(resp'.user, series[i])
         /\ resp'.sn.t # "undef"
         /\ HasSeason(series[i], CastNumber(resp'.sn)) )
       => (resp'.status = 409 /\ series' = series)]_vars

\* C3: addEpisode for a season the series does not contain is answered 404
\* without creating the season, and addEpisode for an episodeNumber the season
\* already contains is answered 409; the stored series is unchanged in both.
C3_AddEpisodeRejections ==
  [][\A i \in SeriesIds :
       ( /\ resp'.op = "addEpisode" /\ resp'.id = i
         /\ series[i] # NoDoc
         /\ ~AccessDenied(resp'.user, series[i]) )
       => LET doc == series[i]
              n == CastNumber(resp'.sn)
              k == FirstOf({x \in 1..Len(doc.seasons) : doc.seasons[x].seasonNumber = n})
          IN /\ ~HasSeason(doc, n) => (resp'.status = 404 /\ series' = series)
             /\ ( /\ HasSeason(doc, n)
                  /\ resp'.en.t # "undef"
                  /\ \E l \in 1..Len(doc.seasons[k].episodes) :
                       doc.seasons[k].episodes[l].episodeNumber = CastNumber(resp'.en) )
                => (resp'.status = 409 /\ series' = series)]_vars

\* C4: in every stored state of a series reached through any write path
\* (createSeries, addSeason, addEpisode, updateEpisode, addServerToEpisode,
\* the view increments, updateSeriesStatus, importSeries and importSeasons)
\* the stored numberOfEpisodes is the total number of episodes of the stored
\* seasons and the stored numberOfSeasons is the number of stored seasons.
C4_CountsNeverStale ==
  \A i \in SeriesIds :
    series[i] # NoDoc =>
      /\ series[i].numberOfSeasons = Len(series[i].seasons)
      /\ series[i].numberOfEpisodes = SumEpisodes(series[i].seasons)

\* C5: a recordImpression (recordClick) request for a stored ad adds exactly 1
\* to that ad's impressions (clicks) every time it is made, leaves the other
\* counter and every other ad as they were, and a request for an unknown ad
\* id changes no counter.
C5_CountersStepByOne ==
  [][\A i \in AdIds :
       (resp'.op \in {"recordImpression", "recordClick"} /\ resp'.id = i)
       => IF ads[i] = NoDoc
          THEN resp'.status = 404 /\ ads' = ads
          ELSE /\ resp'.status = 200
               /\ ads'[i] # NoDoc
               /\ ads'[i].impressions =
                    ads[i].impressions + (IF resp'.op = "recordImpression" THEN 1 ELSE 0)
               /\ ads'[i].clicks =
                    ads[i].clicks + (IF resp'.op = "recordClick" THEN 1 ELSE 0)
               /\ \A k \in AdIds \ {i} : ads'[k] = ads[k]]_vars

C5_Witness ==
  \E i \in AdIds :
    /\ ads[i] # NoDoc
    /\ resp.op = "recordClick" /\ resp.status = 200 /\ resp.id = i
    /\ ads[i].clicks = MaxCount
    /\ ads[i].impressions = 2

\* The issuances of user i, as indexes into issued.
IssuedTo(i) == {k \in 1..Len(issued) : issued[k].id = i}

\* C6: the refresh endpoint accepts at most the most recently issued refresh
\* token of a user; a token handed out by an earlier login or refresh is
\* rejected once a later login or refresh of the same user has succeeded.
\* Read by issuance: an accepted token has no later issuance to its user.
C6_EarlierIssuanceRejected ==
  [][(resp'.op = "refreshToken" /\ resp'.status = 200)
       => \A k \in IssuedTo(resp'.id) :
            issued[k] = resp'.token => \A l \in IssuedTo(resp'.id) : l <= k]_vars

\* C6, by token value: an accepted token is the latest one issued to its
\* user, so an earlier token that differs from the latest one is rejected.
C6_OnlyLatestTokenAccepted ==
  [][(resp'.op = "refreshToken" /\ resp'.token \in {issued[k] : k \in 1..Len(issued)})
       => LET i == resp'.token.id
              latest == issued[CHOOSE k \in IssuedTo(i) : \A l \in IssuedTo(i) : l <= k]
          IN /\ resp'.status = 200 => resp'.token = latest
             /\ resp'.token # latest => (resp'.status = 401 /\ users' = users)]_vars

C6_Witness ==
  /\ resp.op = "refreshToken" /\ resp.status = 401
  /\ resp.id \in UserIds
  /\ \E k, l \in IssuedTo(resp.id) :
       k < l /\ issued[k] = resp.token /\ issued[l] # resp.token
  /\ Verified(resp.token)
  /\ users[resp.id].refreshToken # Null

\* C7: after a successful logout or changePassword of a user the server
\* stores no refresh token for that user, and while it stores none every
\* refresh request with a token of that user is rejected and only a login
\* (login or adminLogin) gives the user a stored token again.
C7_ClearedUntilLogin ==
  [][\A i \in UserIds :
       users[i] # NoDoc =>
         /\ (resp'.op \in {"logout", "changePassword"} /\ resp'.status = 200 /\ resp'.id = i)
              => users'[i].refreshToken = Null
         /\ (users[i].refreshToken = Null /\ resp'.op = "refreshToken"
               /\ resp'.token \in {issued[k] : k \in IssuedTo(i)})
              => (resp'.status = 401 /\ users'[i].refreshToken = Null)
         /\ (users[i].refreshToken = Null /\ users'[i].refreshToken # Null)
              => (resp'.op \in {"login", "adminLogin"} /\ resp'.status = 200 /\ resp'.id = i)]_vars

C7_Witness ==
  /\ resp.op = "refreshToken" /\ resp.status = 401
  /\ resp.id \in UserIds
  /\ resp.token \in {issued[k] : k \in IssuedTo(resp.id)}
  /\ Verified(resp.token)
  /\ users[resp.id].refreshToken = Null
  /\ users[resp.id].password = Hash("p2")

ListOps ==
  {"getContent", "getMovies", "getAllSeries", "search", "getFeaturedContent",
   "getTrendingContent", "getLatestContent", "getContentByGenre",
   "getRecommendedContent"}

StatusOf(item) ==
  IF item[1] = "movie" THEN movies[item[2]].adminStatus ELSE series[item[2]].adminStatus

\* C8: every item a list or aggregate endpoint returns is Published unless
\* the caller is an admin who supplied an adminStatus; a non-admin caller and
\* an admin who supplies no adminStatus receive only Published items.
C8_OnlyPublishedListed ==
  (resp.op \in ListOps /\ ~(Role(resp.user) = "admin" /\ resp.adminStatus # NoParam))
    => \A item \in resp.items : StatusOf(item) = "Published"

MutatingOps ==
  {"updateMovie", "deleteMovie", "addServerToMovie", "removeServerFromMovie",
   "addSeason", "addEpisode", "updateEpisode", "addServerToEpisode"}

MovieOps == {"updateMovie", "deleteMovie", "addServerToMovie", "removeServerFromMovie"}

\* The stored document a mutating request aims at, NoDoc when there is none.
Target(op, i) == IF op \in MovieOps THEN movies[i] ELSE series[i]

\* C9: a mutating content request by a user who is neither an admin nor the
\* addedBy owner of the target is answered 403 and leaves the stored
\* documents unchanged.
C9_NonOwnerGets403 ==
  [][(resp'.op \in MutatingOps /\ Target(resp'.op, resp'.id) # NoDoc
        /\ AccessDenied(resp'.user, Target(resp'.op, resp'.id)))
       => (resp'.status = 403 /\ movies' = movies /\ series' = series)]_vars

\* C9, with the order of updateMovie's tests: the request is refused with
\* 403, or with 400 when it is an updateMovie whose body fails validation,
\* and the stored documents are unchanged.
C9_NonOwnerRefused ==
  [][(resp'.op \in MutatingOps /\ Target(resp'.op, resp'.id) # NoDoc
        /\ AccessDenied(resp'.user, Target(resp'.op, resp'.id)))
       => /\ \/ resp'.status = 403
             \/ resp'.op = "updateMovie" /\ resp'.status = 400
          /\ movies' = movies /\ series' = series]_vars

C9_Witness ==
  /\ resp.op = "updateEpisode" /\ resp.status = 403 /\ resp.user = "mod2"
  /\ series[resp.id] # NoDoc /\ series[resp.id].addedBy = "mod1"
  /\ \E i \in MovieIds : movies[i] # NoDoc /\ movies[i].addedBy = "mod2"

TheMatrix1999 ==
  <<"t", "h", "e", "-", "m", "a", "t", "r", "i", "x", "-", "1", "9", "9", "9">>

\* C10: the stored slug of every movie and series is the slug derived from
\* its current title with '-releaseYear' appended, after creation and after
\* every mutation that changes the title; 'The Matrix' of 1999 has the slug
\* 'the-matrix-1999'.
C10_SlugFollowsTitle ==
  /\ \A i \in MovieIds :
       movies[i] # NoDoc =>
         /\ movies[i].slug = SaveSlug(movies[i].title, movies[i].releaseYear)
         /\ (movies[i].title = TheMatrix /\ movies[i].releaseYear = 1999)
              => movies[i].slug = TheMatrix1999
  /\ \A i \in SeriesIds :
       series[i] # NoDoc =>
         series[i].slug = SaveSlug(series[i].title, series[i].releaseYear)

\* The stored documents of a collection that hold the slug.
HoldersOf(coll, ids, slug) == {i \in ids : coll[i] # NoDoc /\ coll[i].slug = slug}

WithTmdbId(coll, ids, tmdbId) == {i \in ids : coll[i] # NoDoc /\ coll[i].tmdbId = tmdbId}

\* The ids a collection stores documents under.
Stored(coll, ids) == {i \in ids : coll[i] # NoDoc}

Admits(targets, target) ==
  target \in {"all", NoParam} \/ targets = {} \/ target \in targets \/ "all" \in targets

\* The stored ads of the placement asked for that are currently active and
\* whose page, device and country targeting admit the request.
Eligible ==
  {i \in AdIds :
     /\ ads[i] # NoDoc
     /\ ads[i].placement = resp.placement
     /\ isCurrentlyActive(ads[i])
     /\ Admits(ads[i].targetPages, resp.page)
     /\ Admits(ads[i].targetDevices, resp.device)
     /\ Admits(ads[i].targetCountries, resp.country)}

C14_ServedAreCurrentlyActive ==
  resp.op = "getAdsByPlacement" =>
    /\ resp.ads \subseteq Eligible
    /\ Cardinality(Eligible) <= resp.limit => resp.ads = Eligible

\* C15: every stored ad has a priority from 1 to 10.
C15_PriorityInRange ==
  \A i \in AdIds :
    ads[i] # NoDoc => ads[i].priority \in MinPriority..MaxPriority

\* The item the recommendations were asked for.
SourceItem == <<IF resp.contentType = "Movie" THEN "movie" ELSE "series", resp.id>>

\* C16: getRecommendedContent never returns the source itself nor an item
\* that is not Published, returns at most limit items, each sharing a genre
\* or a language with the source or released within two years of it, and the
\* list is the per-collection capped candidates merged and ordered by rating
\* descending: no candidate is left out while a lower-rated one is returned.
C16_RecommendationsByRating ==
  (resp.op = "getRecommendedContent" /\ resp.status = 200) =>
    LET list == resp.recommendations
        source == DocOf(SourceItem)
    IN /\ SourceItem \notin resp.items
       /\ Len(list) <= resp.limit
       /\ \A item \in resp.items :
            /\ DocOf(item).adminStatus = "Published"
            /\ \/ DocOf(item).genres \cap source.genres # {}
               \/ DocOf(item).language \cap source.language # {}
               \/ /\ DocOf(item).releaseYear >= source.releaseYear - 2
                  /\ DocOf(item).releaseYear <= source.releaseYear + 2
       /\ \A x, y \in 1..Len(list) : x < y => RatingOf(list[x]) >= RatingOf(list[y])
       /\ \A k \in 1..Len(resp.merged) :
            resp.merged[k] \notin resp.items =>
              \A item \in resp.items : RatingOf(item) >= RatingOf(resp.merged[k])

\* C17: for every page and limit, createPagination with total = 0 returns
\* totalPages = 0, hasNextPage = false and hasPrevPage = false.
C17_EmptyPagination ==
  (resp.op = "createPagination" /\ resp.total = 0) =>
    /\ resp.result.totalPages = 0
    /\ ~resp.result.hasNextPage
    /\ ~resp.result.hasPrevPage

\* The characters [a-z0-9-].
SlugChars ==
  {"a", "b", "c", "d", "e", "f", "g", "h", "i", "j", "k", "l", "m", "n", "o", "p", "q",
   "r", "s", "t", "u", "v", "w", "x", "y", "z", "0", "1", "2", "3", "4", "5", "6", "7",
   "8", "9", "-"}

\* C18: for every title T and year Y, generateSlug(T, Y) is lowercase, has
\* no character outside [a-z0-9-], and ends with '-Y' when Y is given.
C18_SlugShape ==
  resp.op = "generateSlug" =>
    LET slug == resp.slug
        suffix == <<"-">> \o DigitsOf(resp.year)
    IN /\ \A k \in 1..Len(slug) : slug[k] \in SlugChars
       /\ resp.year # 0 =>
            /\ Len(slug) >= Len(suffix)
            /\ SubSeq(slug, Len(slug) - Len(suffix) + 1, Len(slug)) = suffix

C18_Witness ==
  /\ resp.op = "generateSlug"
  /\ resp.title = <<"U", "_", "É">>
  /\ resp.year = 1999
  /\ resp.slug = <<"u", "-", "1", "9", "9", "9">>

\* Documents to match a query against.
SampleDocs ==
  {[title |-> <<"a", "x">>, overview |-> <<>>],
   [title |-> <<>>, overview |-> <<"x", " ", "a">>],
   [title |-> <<"U", "p">>, overview |-> <<"a">>]}

\* C19: for every search term that is missing or shorter than 2 characters
\* after trimming, and for any field list, buildSearchQuery returns the empty
\* predicate, which matches every document.
C19_ShortTermMatchesAll ==
  ( /\ resp.op = "buildSearchQuery"
    /\ \/ resp.searchTerm.t = "undef"
       \/ resp.searchTerm.t = "text" /\ Len(Trim(resp.searchTerm.s, {" "})) < 2 )
    => /\ resp.result = EmptyQuery
       /\ \A doc \in SampleDocs : QueryMatches(resp.result, doc)

C19_Witness ==
  /\ resp.op = "buildSearchQuery"
  /\ resp.searchTerm = JText(<<" ", "x", " ">>)
  /\ resp.fields = <<"title", "cast.name">>
  /\ resp.result = EmptyQuery

\* C20: buildFilterQuery drops a key only when its value is absent, empty or
\* whitespace-only and passes every other value of an unrecognized key
\* through as an equality constraint on the field of that name, so that
\* getAllAds called with isActive=false lists only ads with isActive = false.
C20_FilterPassThrough ==
  resp.op = "getAllAds" =>
    /\ \A key \in {"placement", "isActive", "network"} :
         LET value == resp.filters[key]
             absent == value.t = "undef" \/ (value.t = "text" /\ Trim(value.s, {" "}) = <<>>)
         IN IF absent THEN key \notin DOMAIN resp.query
            ELSE key \in DOMAIN resp.query /\ resp.query[key] = [eq |-> value]
    /\ (resp.isActive.t = "text" /\ resp.isActive.s = FalseText)
         => \A i \in resp.items : ~ads[i].isActive

\* The place of an item in the content listing.
PlaceOf(item) == CHOOSE k \in 1..Len(resp.content) : resp.content[k] = item

\* C21: with sortBy=trending, two movies of equal views, rating and likes
\* and different createdAt appear in getContent's result with the more
\* recently created one first, for type=movie and for type=all.
C21_TrendingTieNewestFirst ==
  (resp.op = "getContent" /\ resp.sortBy = "trending" /\ resp.type \in {"movie", "all"}) =>
    \A a, b \in MovieIds :
      ( /\ <<"movie", a>> \in resp.items
        /\ <<"movie", b>> \in resp.items
        /\ movies[a].views = movies[b].views
        /\ movies[a].rating = movies[b].rating
        /\ movies[a].likes = movies[b].likes
        /\ movies[a].createdAt > movies[b].createdAt )
      => PlaceOf(<<"movie", a>>) < PlaceOf(<<"movie", b>>)

C21_Witness ==
  /\ resp.op = "getContent" /\ resp.sortBy = "trending" /\ resp.type = "all"
  /\ Len(resp.content) = 3
  /\ \E a, b \in MovieIds :
       /\ <<"movie", a>> \in resp.items
       /\ <<"movie", b>> \in resp.items
       /\ movies[a].views = movies[b].views
       /\ movies[a].rating = movies[b].rating
       /\ movies[a].createdAt > movies[b].createdAt
       /\ PlaceOf(<<"movie", a>>) < PlaceOf(<<"movie", b>>)

\* C24: for type=all, getContent's in-memory re-sort orders the merged list
\* by the ordering buildSortQuery defines for the sort key: every pair of
\* returned items stands in the combined result as that ordering ranks it.
C24_ReSortAgreesWithSortQuery ==
  (resp.op = "getContent" /\ resp.type = "all") =>
    \A x, y \in 1..Len(resp.content) :
      x < y => SortCompare(DocOf(resp.content[x]), DocOf(resp.content[y]),
                           buildSortQuery(resp.sortBy, "desc")) <= 0

\* C22: the Series method addEpisode, called for a season number the series
\* does not contain, creates the season, and the saved series contains that
\* season with the given episode in its episode list and numberOfEpisodes
\* greater by 1.
C22_MethodAddEpisodeCreatesSeason ==
  [][\A i \in SeriesIds :
       ( /\ resp'.op = "Series.addEpisode" /\ resp'.id = i
         /\ ~HasSeason(series[i], resp'.sn.v) )
       => /\ \E k \in 1..Len(series'[i].seasons) :
               /\ series'[i].seasons[k].seasonNumber = resp'.sn.v
               /\ \E l \in 1..Len(series'[i].seasons[k].episodes) :
                    series'[i].seasons[k].episodes[l].episodeNumber = resp'.en.v
          /\ series'[i].numberOfEpisodes = series[i].numberOfEpisodes + 1]_vars

\* C23: the counter increments are read-increment-write: a handler that
\* answers 200 has written the value it loaded plus one, whatever the stored
\* value had become in between.
C23_IncrementWritesValueReadPlusOne ==
  [][\A p \in Procs :
       (flight[p].pc = "save" /\ flight'[p].pc = "done" /\ flight'[p].status = 200)
       => LET f == flight[p]
          IN /\ f.op = "recordImpression" =>
                  ads'[f.id].impressions = f.read.impressions + 1
             /\ f.op = "recordClick" => ads'[f.id].clicks = f.read.clicks + 1
             /\ f.op = "getMovie" => movies'[f.id].views = f.read.views + 1]_vars

\* Both handlers have answered 200 for the same ad, and the stored counter
\* stands one above the value it had before either of them.
C23_Witness ==
  /\ flight[1].pc = "done" /\ flight[2].pc = "done"
  /\ flight[1].status = 200 /\ flight[2].status = 200
  /\ flight[1].op = "recordImpression" /\ flight[2].op = "recordImpression"
  /\ flight[1].id = flight[2].id
  /\ flight[1].read.impressions = 0 /\ flight[2].read.impressions = 0
  /\ ads[flight[1].id] # NoDoc
  /\ ads[flight[1].id].impressions = 1


\* C26: within a series no two seasons share a seasonNumber, for every
\* sequence and interleaving of addSeason requests, two concurrent requests
\* for the same number included.
C26_SeasonNumbersUnique ==
  \A i \in SeriesIds :
    series[i] # NoDoc =>
      \A k, l \in 1..Len(series[i].seasons) :
        series[i].seasons[k].seasonNumber = series[i].seasons[l].seasonNumber => k = l

\* C30: a refresh token is single-use: for each token value at most one
\* refreshToken request succeeds, also when two requests that present the
\* same token are handled concurrently.
C30_RefreshTokenSingleUse ==
  ~ ( /\ flight[1].op = "refreshToken" /\ flight[2].op = "refreshToken"
      /\ flight[1].pc = "done" /\ flight[2].pc = "done"
      /\ flight[1].status = 200 /\ flight[2].status = 200
      /\ flight[1].token = flight[2].token )

\* The seasons of a TMDB list that were fetched: not season 0, and the
\* request for the details answered.
Fetched(tmdbSeasons, answers) ==
  {n \in 1..MaxTmdbSeason :
     /\ \E k \in 1..Len(tmdbSeasons) : tmdbSeasons[k] = n
     /\ answers[n] >= 0}

\* C25: importSeasons skips a season whose fetch or mapping fails and still
\* attempts the later ones, never imports season 0, and saves the series
\* with exactly the fetched seasons added or put in place of the season of
\* the same number, every other stored season unchanged.
C25_ImportSeasonsSkipsFailures ==
  [][\A i \in SeriesIds :
       (resp'.op = "importSeasons" /\ resp'.id = i /\ series[i] # NoDoc)
       => LET before == series[i].seasons
              after == series'[i].seasons
              fetched == Fetched(resp'.tmdbSeasons, resp'.answers)
              had == {before[k].seasonNumber : k \in 1..Len(before)}
          IN /\ \A n \in fetched :
                  \E k \in 1..Len(after) :
                    after[k] = mapSeasonData(n, resp'.answers[n])
             /\ \A k \in 1..Len(before) :
                  before[k].seasonNumber \notin fetched
                    => (k <= Len(after) /\ after[k] = before[k])
             /\ Len(after) = Len(before) + Cardinality(fetched \ had)]_vars

\* C27: within a season no two episodes share an episodeNumber after any
\* sequence of addEpisode and updateEpisode requests; updateEpisode cannot
\* renumber an episode onto a number another episode of the season uses.
C27_EpisodeNumbersUnique ==
  \A i \in SeriesIds :
    series[i] # NoDoc =>
      \A s \in 1..Len(series[i].seasons) :
        LET episodes == series[i].seasons[s].episodes
        IN \A k, l \in 1..Len(episodes) :
             episodes[k].episodeNumber = episodes[l].episodeNumber => k = l

\* C29: a caller who is not an admin gets nothing through getMovie,
\* getSeries or getEpisode of content whose adminStatus is not Published: the
\* request is answered 404 and no view counter is incremented.
C29_UnpublishedHiddenFromNonAdmins ==
  [][( /\ resp'.op \in {"getMovie", "getSeries", "getEpisode"}
       /\ Role(resp'.user) # "admin" )
     => LET doc == IF resp'.op = "getMovie" THEN movies[resp'.id] ELSE series[resp'.id]
        IN (doc # NoDoc /\ doc.adminStatus # "Published")
             => (resp'.status = 404 /\ movies' = movies /\ series' = series)]_vars

\* C28: adminStatus is set to a value other than the default Draft, or
\* changed, only by an admin: no request of a non-admin moderator through
\* createMovie, updateMovie or createSeries stores content with another
\* status than Draft or changes the status of stored content.
C28_StatusSetByAdminOnly ==
  [][( /\ resp'.op \in {"createMovie", "updateMovie", "createSeries"}
       /\ Role(resp'.user) # "admin" )
     => /\ \A i \in MovieIds :
             movies'[i] # NoDoc =>
               movies'[i].adminStatus =
                 IF movies[i] = NoDoc THEN "Draft" ELSE movies[i].adminStatus
        /\ \A i \in SeriesIds :
             series'[i] # NoDoc =>
               series'[i].adminStatus =
                 IF series[i] = NoDoc THEN "Draft" ELSE series[i].adminStatus]_vars

====
